---- MODULE Spec2Model ----
(***************************************************************************)
(* Verification model of intns::memory (StackAllocator, StackCheckpoint,    *)
(* Alignment, ObjectPool).                                                 *)
(*                                                                         *)
(* Addresses and sizes are machine words of AddrBits bits; every           *)
(* arithmetic result that the C++ code stores in a std::uintptr_t or a     *)
(* std::size_t is reduced modulo 2^AddrBits.                               *)
(***************************************************************************)
EXTENDS Integers, Naturals, Sequences, FiniteSets, TLC

\* ------------------------------------------------------------------------
\* Bounds of the model
\* ------------------------------------------------------------------------

\* Width in bits of std::uintptr_t / std::size_t in the model.
AddrBits == 6

\* Largest capacity handed to StackAllocator(size_type).
MaxCapacity == 10

\* Largest size argument handed to alloc(size, alignment).
MaxSize == 3

\* Largest sizeof(T) handed to alloc_t<T>().
MaxTypeSize == 4

\* ------------------------------------------------------------------------
\* Platform constants
\* ------------------------------------------------------------------------

\* alignof(std::max_align_t): implementation-defined, 8 with MSVC and on
\* 32-bit targets, 16 with glibc on x86-64.  The model takes 8.
MaxAlignT == 8

NULL == 0

RECURSIVE Pow2(_)
Pow2(n) == IF n = 0 THEN 1 ELSE 2 * Pow2(n - 1)

WordSize == Pow2(AddrBits)
WordMax == WordSize - 1
Word == 0..WordMax

\* Unsigned wrap-around of std::uintptr_t / std::size_t arithmetic.
Wrap(x) == x % WordSize

\* Bitwise operators of the machine word.
RECURSIVE BitAnd(_, _)
BitAnd(x, y) ==
  IF x = 0 \/ y = 0 THEN 0
  ELSE (x % 2) * (y % 2) + 2 * BitAnd(x \div 2, y \div 2)

BitNot(x) == WordMax - x

\* ------------------------------------------------------------------------
\* Alignment.hpp
\* ------------------------------------------------------------------------

\* (addr + alignment - 1) & ~(alignment - 1)
align_address(addr, alignment) ==
  BitAnd(Wrap(addr + alignment - 1), BitNot(Wrap(alignment - 1)))

\* (addr & (alignment - 1)) == 0
is_aligned(addr, alignment) == BitAnd(addr, Wrap(alignment - 1)) = 0

\* Mutant: the bit test is dropped, every non-zero value passes.
is_power_of_two_nonzero_only(value) == value # 0

\* value != 0 && (value & (value - 1)) == 0
is_power_of_two(value) == value # 0 /\ BitAnd(value, Wrap(value - 1)) = 0

\* ------------------------------------------------------------------------
\* StackAllocator: constructors
\* ------------------------------------------------------------------------

NoArena == [threw |-> TRUE, start |-> 0, active |-> 0, capacity |-> 0,
            owns |-> FALSE]

\* StackAllocator(size_type capacity); memory is what std::malloc returned.
StackAllocatorOwned(capacity, memory) ==
  IF capacity = 0 THEN NoArena
  ELSE IF memory = NULL THEN NoArena
  ELSE [threw |-> FALSE, start |-> memory, active |-> memory,
        capacity |-> capacity, owns |-> TRUE]

\* Mutant: the capacity is the whole size, the skipped bytes included.
StackAllocatorExternal_full_size(memory, size) ==
  IF memory = NULL THEN NoArena
  ELSE IF size = 0 THEN NoArena
  ELSE LET addr == memory
           start == align_address(addr, MaxAlignT)
           offset == Wrap(start - addr)
       IN IF offset # 0 /\ Wrap(offset + MaxAlignT) >= size THEN NoArena
          ELSE [threw |-> FALSE, start |-> start, active |-> start,
                capacity |-> size, owns |-> FALSE]

\* StackAllocator(void* memory, size_type size)
StackAllocatorExternal(memory, size) ==
  IF memory = NULL THEN NoArena
  ELSE IF size = 0 THEN NoArena
  ELSE LET addr == memory
           start == align_address(addr, MaxAlignT)
           offset == Wrap(start - addr)
       IN IF offset # 0 /\ Wrap(offset + MaxAlignT) >= size THEN NoArena
          ELSE [threw |-> FALSE, start |-> start, active |-> start,
                capacity |-> Wrap(size - offset), owns |-> FALSE]

\* ------------------------------------------------------------------------
\* StackAllocator: operations, as functions of the object's fields
\* ------------------------------------------------------------------------

\* Mutant: the end-of-buffer test is missing.
alloc_no_end_check(start, active, capacity, size, alignment) ==
  IF size = 0 \/ size > capacity THEN [ret |-> NULL, marker |-> active]
  ELSE IF ~is_power_of_two(alignment) \/ alignment > capacity
  THEN [ret |-> NULL, marker |-> active]
  ELSE LET aligned_pos == align_address(active, alignment)
       IN IF aligned_pos < start
          THEN [ret |-> NULL, marker |-> active]
          ELSE [ret |-> aligned_pos, marker |-> Wrap(aligned_pos + size)]

\* Mutant: the marker is advanced by the alignment instead of the size.
alloc_advance_by_alignment(start, active, capacity, size, alignment) ==
  IF size = 0 \/ size > capacity THEN [ret |-> NULL, marker |-> active]
  ELSE IF ~is_power_of_two(alignment) \/ alignment > capacity
  THEN [ret |-> NULL, marker |-> active]
  ELSE LET aligned_pos == align_address(active, alignment)
           last_valid_start_pos == Wrap(Wrap(start + capacity) - size)
       IN IF aligned_pos < start \/ aligned_pos > last_valid_start_pos
          THEN [ret |-> NULL, marker |-> active]
          ELSE [ret |-> aligned_pos, marker |-> Wrap(aligned_pos + alignment)]

\* Mutant: a request that does not fit clamps the marker to the end.
alloc_clamp_on_failure(start, active, capacity, size, alignment) ==
  IF size = 0 \/ size > capacity THEN [ret |-> NULL, marker |-> active]
  ELSE IF ~is_power_of_two(alignment) \/ alignment > capacity
  THEN [ret |-> NULL, marker |-> active]
  ELSE LET aligned_pos == align_address(active, alignment)
           last_valid_start_pos == Wrap(Wrap(start + capacity) - size)
       IN IF aligned_pos < start \/ aligned_pos > last_valid_start_pos
          THEN [ret |-> NULL, marker |-> Wrap(start + capacity)]
          ELSE [ret |-> aligned_pos, marker |-> Wrap(aligned_pos + size)]

\* void* alloc(size_type size, size_type alignment) noexcept
alloc(start, active, capacity, size, alignment) ==
  IF size = 0 \/ size > capacity THEN [ret |-> NULL, marker |-> active]
  ELSE IF ~is_power_of_two(alignment) \/ alignment > capacity
  THEN [ret |-> NULL, marker |-> active]
  ELSE LET aligned_pos == align_address(active, alignment)
           last_valid_start_pos == Wrap(Wrap(start + capacity) - size)
       IN IF aligned_pos < start \/ aligned_pos > last_valid_start_pos
          THEN [ret |-> NULL, marker |-> active]
          ELSE [ret |-> aligned_pos, marker |-> Wrap(aligned_pos + size)]

\* Mutant: the typed path forgets to align the position.
alloc_t_unaligned(start, active, capacity, type_size, align_req) ==
  IF type_size > capacity THEN [ret |-> NULL, marker |-> active]
  ELSE LET aligned_pos == active
           last_valid_start_pos == Wrap(Wrap(start + capacity) - type_size)
       IN IF aligned_pos < start \/ aligned_pos > last_valid_start_pos
          THEN [ret |-> NULL, marker |-> active]
          ELSE [ret |-> aligned_pos, marker |-> Wrap(aligned_pos + type_size)]

\* Mutant: a block that ends exactly at the end of the buffer is refused.
alloc_t_exact_fit_fails(start, active, capacity, type_size, align_req) ==
  IF type_size > capacity THEN [ret |-> NULL, marker |-> active]
  ELSE LET aligned_pos == align_address(active, align_req)
           last_valid_start_pos == Wrap(Wrap(start + capacity) - type_size)
       IN IF aligned_pos < start \/ aligned_pos >= last_valid_start_pos
          THEN [ret |-> NULL, marker |-> active]
          ELSE [ret |-> aligned_pos, marker |-> Wrap(aligned_pos + type_size)]

\* template <typename T> T* alloc_t() noexcept,
\* with type_size = sizeof(T) and align_req = alignof(T)
alloc_t(start, active, capacity, type_size, align_req) ==
  IF type_size > capacity THEN [ret |-> NULL, marker |-> active]
  ELSE LET aligned_pos == align_address(active, align_req)
           last_valid_start_pos == Wrap(Wrap(start + capacity) - type_size)
       IN IF aligned_pos < start \/ aligned_pos > last_valid_start_pos
          THEN [ret |-> NULL, marker |-> active]
          ELSE [ret |-> aligned_pos, marker |-> Wrap(aligned_pos + type_size)]

\* Mutant: the checkpoint is the offset into the buffer, not the marker.
save_checkpoint_offset(start, active) == Wrap(active - start)

\* checkpoint_t save_checkpoint() const noexcept
save_checkpoint(start, active) == active

\* Mutant: the checkpoint is taken over without the range test.
restore_checkpoint_unchecked(start, active, capacity, checkpoint) ==
  [threw |-> FALSE, marker |-> checkpoint]

\* Mutant: the upper bound excludes the end of the buffer.
restore_checkpoint_end_excluded(start, active, capacity, checkpoint) ==
  IF checkpoint < start \/ checkpoint >= Wrap(start + capacity)
  THEN [threw |-> TRUE, marker |-> active]
  ELSE [threw |-> FALSE, marker |-> checkpoint]

\* Mutant: a checkpoint above the marker is rejected as well.
restore_checkpoint_backward_only(start, active, capacity, checkpoint) ==
  IF checkpoint < start \/ checkpoint > Wrap(start + capacity)
     \/ checkpoint > active
  THEN [threw |-> TRUE, marker |-> active]
  ELSE [threw |-> FALSE, marker |-> checkpoint]

\* void restore_checkpoint(checkpoint_t checkpoint)
restore_checkpoint(start, active, capacity, checkpoint) ==
  IF checkpoint < start \/ checkpoint > Wrap(start + capacity)
  THEN [threw |-> TRUE, marker |-> active]
  ELSE [threw |-> FALSE, marker |-> checkpoint]

\* size_type bytes_used() const noexcept
bytes_used_of(start, active) == Wrap(active - start)

\* Mutant: the remaining bytes are counted from the marker's address.
bytes_remaining_from_address(start, active, capacity) ==
  Wrap(capacity - active)

\* size_type bytes_remaining() const noexcept
bytes_remaining_of(start, active, capacity) ==
  Wrap(capacity - bytes_used_of(start, active))

\* Mutant: reset keeps the marker where it is.
reset_keeps_marker(start, active) == active

\* void reset() noexcept
reset(start, active) == start

\* ------------------------------------------------------------------------
\* State
\* ------------------------------------------------------------------------

VARIABLES
  start_marker_,   \* StackAllocator::start_marker_
  active_marker_,  \* StackAllocator::active_marker_
  capacity_,       \* StackAllocator::capacity_
  owns_memory_,    \* StackAllocator::owns_memory_
  built,           \* the fields and the checkpoint right after construction
  last,            \* the last call on the arena: arguments and outcome
  saved,           \* the checkpoint the caller holds from save_checkpoint()
  requested,       \* the successful allocations since fresh/reset/restore
  other,           \* a second StackAllocator, B: its fields
  made,            \* the constructor call: arguments and outcome
  guards,          \* the live StackCheckpoint objects, innermost last
  objects_,        \* ObjectPool::objects_
  size_limit_,     \* ObjectPool::size_limit_
  pool,            \* the last call on the pool: arguments and outcome
  script,          \* the calls made on the pool since it was constructed
  mutex_,          \* ObjectPool::mutex_: the thread that holds it, or 0
  leases,          \* the PoolLease objects, by name
  threads          \* the threads that use the pool, and where each one is

arenaVars == <<start_marker_, active_marker_, capacity_, owns_memory_,
               built, last, saved, requested, other>>
poolVars == <<objects_, size_limit_, pool, script>>
clientVars == <<mutex_, leases, threads>>

vars == <<start_marker_, active_marker_, capacity_, owns_memory_,
          built, last, saved, requested, other, made, guards,
          objects_, size_limit_, pool, script, mutex_, leases, threads>>

\* std::optional<size_type>: nullopt is the empty sequence, a value v is <<v>>.
nullopt == <<>>
some(v) == <<v>>
has_value(o) == o # nullopt
value(o) == o[1]

\* An exception raised inside a try block: the call that raises it and the
\* iteration of the enclosing loop at which it does (0 outside loops).
FaultAt(site, index) == [site |-> site, index |-> index]
NoFault == FaultAt("none", 0)

\* Values of the variables of a component that is not in use.
NoConstruction == [op |-> "none", memory |-> 0, size |-> 0, threw |-> FALSE]
NoPoolCall == [op |-> "none", arg |-> 0, limit |-> nullopt, ret |-> <<>>,
               error |-> "none", hooks |-> <<>>, fault |-> NoFault]
\* No thread and no lease uses the pool.
NoClients ==
  /\ mutex_ = 0
  /\ leases = <<>>
  /\ threads = <<>>

OffScript == [on |-> FALSE, init_size |-> 0, limit |-> nullopt, adds |-> 0]
NoPool ==
  /\ objects_ = <<>>
  /\ size_limit_ = nullopt
  /\ pool = NoPoolCall
  /\ script = OffScript
  /\ NoClients

bytes_used == bytes_used_of(start_marker_, active_marker_)
bytes_remaining ==
  bytes_remaining_of(start_marker_, active_marker_, capacity_)
capacity == capacity_

\* ------------------------------------------------------------------------
\* Inputs
\* ------------------------------------------------------------------------

\* Addresses std::malloc may return (suitably aligned for any object).
\* The highest one puts the buffer's end next to the top of the address
\* space, where aligning the marker upward can wrap around.
MallocAddrs == {WordSize - 2 * MaxAlignT}

\* Capacities handed to StackAllocator(size_type).
Capacities == {1, 2, 5, MaxCapacity}

\* Caller-supplied buffers for the non-owning constructor: an aligned one
\* smaller than MaxAlignT and a misaligned one that leaves MaxAlignT + 1
\* usable bytes.
ExternalBuffers ==
  {[memory |-> MaxAlignT, size |-> 3],
   [memory |-> 2 * MaxAlignT + 1, size |-> 2 * MaxAlignT]}

\* A buffer is an object in memory: it does not wrap around the address
\* space and the address one past its end is representable.
ValidBuffer(memory, size) == memory # NULL /\ memory + size < WordSize

Sizes == 0..MaxSize
Alignments == {0, 1, 2, 3, 4, 8, 16}

\* (sizeof(T), alignof(T)) of the object types T: alignof(T) is a power of
\* two and sizeof(T) a positive multiple of it.
TypesUpTo(n) ==
  {t \in [size : 1..n, align : {1, 2, 4, 8, 16}] : t.size % t.align = 0}

\* The types alloc_t<T>() is instantiated with.
Types == TypesUpTo(MaxTypeSize)

\* Values a caller may pass to restore_checkpoint.
Checkpoints ==
  {NULL} \cup ((start_marker_ - 1)..(start_marker_ + capacity_ + 1))

NoCall == [op |-> "construct", size |-> 0, alignment |-> 0, checkpoint |-> 0,
           ret |-> 0, threw |-> FALSE, before |-> 0]

NoSaved == [held |-> FALSE, checkpoint |-> 0, used |-> 0]

\* The value of other while no second arena is in use.
NoOther == [start_marker_ |-> 0, active_marker_ |-> 0, capacity_ |-> 0]

Max(a, b) == IF a >= b THEN a ELSE b

\* The allocations since the arena was fresh, reset or restored, after a
\* call to alloc or alloc_t that returned r for size bytes: total is the
\* sum of the sizes granted while no restore has intervened, high the
\* highest end of a granted block (NULL while there is none).
Granted(r, size) ==
  IF r.ret = NULL THEN requested
  ELSE [total |-> IF requested.linear THEN requested.total + size
                  ELSE requested.total,
        linear |-> requested.linear,
        high |-> Max(requested.high, r.ret + size)]

\* ------------------------------------------------------------------------
\* Initial states: the arena right after a successful construction
\* ------------------------------------------------------------------------

Constructed ==
  {a \in {StackAllocatorOwned(c, m) :
            c \in Capacities, m \in MallocAddrs}
         \cup {StackAllocatorExternal(b.memory, b.size) :
                 b \in ExternalBuffers} :
     ~a.threw /\ ValidBuffer(a.start, a.capacity)}

ArenaInit ==
  \E a \in Constructed :
    /\ start_marker_ = a.start
    /\ active_marker_ = a.active
    /\ capacity_ = a.capacity
    /\ owns_memory_ = a.owns
    /\ built = [start |-> a.start, capacity |-> a.capacity,
                checkpoint |-> save_checkpoint(a.start, a.active)]
    /\ last = NoCall
    /\ saved = NoSaved
    /\ requested = [total |-> 0, linear |-> TRUE, high |-> NULL]
    /\ other = NoOther
    /\ made = NoConstruction
    /\ guards = <<>>
    /\ NoPool

\* ------------------------------------------------------------------------
\* Actions: one per public operation
\* ------------------------------------------------------------------------

Alloc ==
  \E size \in Sizes \cup {capacity_ + 1}, alignment \in Alignments :
    LET r == alloc(start_marker_, active_marker_, capacity_, size, alignment)
    IN /\ active_marker_' = r.marker
       /\ last' = [op |-> "alloc", size |-> size, alignment |-> alignment,
                   checkpoint |-> 0, ret |-> r.ret, threw |-> FALSE,
                   before |-> active_marker_]
       /\ requested' = Granted(r, size)
       /\ UNCHANGED <<start_marker_, capacity_, owns_memory_, built, saved>>
       /\ UNCHANGED <<other, made, guards, poolVars, clientVars>>

AllocT ==
  \E t \in Types :
    LET r == alloc_t(start_marker_, active_marker_, capacity_,
                     t.size, t.align)
    IN /\ active_marker_' = r.marker
       /\ last' = [op |-> "alloc_t", size |-> t.size, alignment |-> t.align,
                   checkpoint |-> 0, ret |-> r.ret, threw |-> FALSE,
                   before |-> active_marker_]
       /\ requested' = Granted(r, t.size)
       /\ UNCHANGED <<start_marker_, capacity_, owns_memory_, built, saved>>
       /\ UNCHANGED <<other, made, guards, poolVars, clientVars>>

SaveCheckpoint ==
  LET c == save_checkpoint(start_marker_, active_marker_)
  IN /\ saved' = [held |-> TRUE, checkpoint |-> c, used |-> bytes_used]
     /\ last' = [op |-> "save_checkpoint", size |-> 0, alignment |-> 0,
                 checkpoint |-> 0, ret |-> c, threw |-> FALSE,
                 before |-> active_marker_]
     /\ UNCHANGED <<start_marker_, active_marker_, capacity_, owns_memory_,
                    built, requested>>
     /\ UNCHANGED <<other, made, guards, poolVars, clientVars>>

\* A restore that succeeds ends the run of allocations counted in
\* requested and uses up the held checkpoint's "allocations only" history;
\* the held checkpoint itself stays with the caller.
RestoreCheckpoint ==
  \E checkpoint \in Checkpoints \cup {saved.checkpoint} :
    LET r == restore_checkpoint(start_marker_, active_marker_, capacity_,
                                checkpoint)
    IN /\ active_marker_' = r.marker
       /\ last' = [op |-> "restore_checkpoint", size |-> 0, alignment |-> 0,
                   checkpoint |-> checkpoint, ret |-> 0, threw |-> r.threw,
                   before |-> active_marker_]
       /\ requested' = IF r.threw THEN requested
                       ELSE [total |-> 0, linear |-> FALSE, high |-> NULL]
       /\ saved' = IF checkpoint = saved.checkpoint THEN saved ELSE NoSaved
       /\ UNCHANGED <<start_marker_, capacity_, owns_memory_, built>>
       /\ UNCHANGED <<other, made, guards, poolVars, clientVars>>

Reset ==
  /\ active_marker_' = reset(start_marker_, active_marker_)
  /\ last' = [op |-> "reset", size |-> 0, alignment |-> 0, checkpoint |-> 0,
              ret |-> 0, threw |-> FALSE, before |-> active_marker_]
  /\ requested' = [total |-> 0, linear |-> TRUE, high |-> NULL]
  /\ saved' = NoSaved
  /\ UNCHANGED <<start_marker_, capacity_, owns_memory_, built>>
  /\ UNCHANGED <<other, made, guards, poolVars, clientVars>>

ArenaNext ==
  \/ Alloc
  \/ AllocT
  \/ SaveCheckpoint
  \/ RestoreCheckpoint
  \/ Reset

ArenaSpec == ArenaInit /\ [][ArenaNext]_vars

\* ------------------------------------------------------------------------
\* Properties of the arena
\* ------------------------------------------------------------------------

\* n is a power of two, stated arithmetically.
IsPowerOfTwo(n) == \E k \in 0..AddrBits : n = Pow2(k)

\* Fields of the arena before the last call (start and capacity are fixed).
used_before == bytes_used_of(start_marker_, last.before)
remaining_before == bytes_remaining_of(start_marker_, last.before, capacity_)

\* C1: every successful alloc(size, alignment) with a power-of-two
\* alignment returns an address that is a multiple of the alignment and a
\* block [a, a + size) inside [base, base + capacity), whatever calls came
\* before it.
C1_AllocAlignedInBounds ==
  (last.op = "alloc" /\ last.ret # NULL /\ IsPowerOfTwo(last.alignment))
    => /\ last.ret % last.alignment = 0
       /\ start_marker_ <= last.ret
       /\ last.ret + last.size <= start_marker_ + capacity_

\* A padded, aligned allocation made after an earlier restore.
C1_Witness ==
  /\ last.op = "alloc" /\ last.ret # NULL
  /\ last.alignment > 1 /\ last.ret > last.before
  /\ ~requested.linear

\* C2: base <= cursor <= base + capacity in every reachable state, and base
\* and capacity keep the values they got at construction.
C2_CursorInBounds ==
  /\ start_marker_ = built.start
  /\ capacity_ = built.capacity
  /\ start_marker_ <= active_marker_
  /\ active_marker_ <= start_marker_ + capacity_

\* A failed restore on an arena that is filled to its end.
C2_Witness ==
  /\ last.op = "restore_checkpoint" /\ last.threw
  /\ active_marker_ = start_marker_ + capacity_

\* C3: restoring the checkpoint that save_checkpoint() returned when
\* bytes_used() was u, after any allocations (successful or failed) made
\* since, brings bytes_used() back to u.
C3_RestoreReturnsToSavedUsage ==
  (last.op = "restore_checkpoint" /\ saved.held
   /\ last.checkpoint = saved.checkpoint)
    => bytes_used = saved.used

\* A restore of the held checkpoint that discards allocations.
C3_Witness ==
  /\ last.op = "restore_checkpoint" /\ saved.held
  /\ last.checkpoint = saved.checkpoint
  /\ ~last.threw
  /\ used_before > saved.used

\* C4: alloc(size, alignment) with size > bytes_remaining() returns nullptr
\* and leaves bytes_used() unchanged.
C4_AllocBeyondRemainingFails ==
  (last.op = "alloc" /\ last.size > remaining_before)
    => /\ last.ret = NULL
       /\ ~last.threw
       /\ bytes_used = used_before

\* A well-formed request that fits the capacity but not what remains of it.
C4_Witness ==
  /\ last.op = "alloc"
  /\ last.size > remaining_before /\ last.size <= capacity_
  /\ remaining_before > 0
  /\ IsPowerOfTwo(last.alignment) /\ last.alignment <= capacity_

\* C5: alloc(size, alignment) returns nullptr and leaves the cursor
\* unchanged whenever size == 0, the alignment is not a power of two
\* (0 included) or the alignment exceeds the capacity.
C5_AllocRejectsBadArguments ==
  (last.op = "alloc"
   /\ (last.size = 0 \/ ~IsPowerOfTwo(last.alignment)
       \/ last.alignment > capacity_))
    => /\ last.ret = NULL
       /\ ~last.threw
       /\ active_marker_ = last.before

\* A request with a non-power-of-two alignment that would fit.
C5_Witness ==
  /\ last.op = "alloc"
  /\ last.alignment = 3
  /\ last.size > 0
  /\ last.size + last.alignment <= remaining_before

\* C6: restore_checkpoint(c) fails exactly when c < base or
\* c > base + capacity; a failing restore leaves the cursor unchanged and
\* an accepted one sets the cursor to c.
C6_RestoreChecksRange ==
  last.op = "restore_checkpoint"
    => /\ last.threw <=> (last.checkpoint < start_marker_
                          \/ last.checkpoint > start_marker_ + capacity_)
       /\ last.threw => active_marker_ = last.before
       /\ ~last.threw => active_marker_ = last.checkpoint

\* The end of the buffer is accepted as a checkpoint and moves the cursor.
C6_Witness ==
  /\ last.op = "restore_checkpoint" /\ ~last.threw
  /\ last.checkpoint = start_marker_ + capacity_
  /\ last.before < last.checkpoint

\* C7: bytes_used() + bytes_remaining() == capacity() in every reachable
\* state.
C7_UsedPlusRemainingIsCapacity ==
  bytes_used + bytes_remaining = capacity

\* A partly filled arena after a successful allocation.
C7_Witness ==
  /\ last.op = "alloc" /\ last.ret # NULL
  /\ bytes_used > 0 /\ bytes_remaining > 0

\* C8: after successful allocations whose sizes total k, made on a fresh
\* or reset arena with no restore or reset in between, bytes_used() >= k.
C8_UsedCoversRequested ==
  requested.linear => bytes_used >= requested.total

\* Several allocations with padding between them.
C8_Witness ==
  /\ requested.linear
  /\ last.op = "alloc" /\ last.ret # NULL
  /\ requested.total > last.size
  /\ bytes_used > requested.total

\* C9: reset() never fails, leaves bytes_used() == 0 and
\* bytes_remaining() == capacity(), and ends in the state that restoring
\* the checkpoint taken right after construction ends in.
C9_ResetIsRestoreOfInitialCheckpoint ==
  last.op = "reset"
    => /\ ~last.threw
       /\ bytes_used = 0
       /\ bytes_remaining = capacity
       /\ LET r == restore_checkpoint(start_marker_, last.before, capacity_,
                                      built.checkpoint)
          IN ~r.threw /\ active_marker_ = r.marker

\* A reset of an arena that held allocations.
C9_Witness ==
  /\ last.op = "reset"
  /\ last.before > start_marker_

\* C10: alloc_t<T>() and alloc(sizeof(T), alignof(T)) return the same
\* address (or both nullptr) and leave the same cursor, in every reachable
\* state and for every T whose size is a positive multiple of its
\* power-of-two alignment.
C10_AllocTIsAlloc ==
  /\ \A t \in TypesUpTo(2 * MaxAlignT) :
       alloc_t(start_marker_, active_marker_, capacity_, t.size, t.align)
         = alloc(start_marker_, active_marker_, capacity_, t.size, t.align)
  /\ last.op = "alloc_t"
       => [ret |-> last.ret, marker |-> active_marker_]
            = alloc(start_marker_, last.before, capacity_,
                    last.size, last.alignment)

\* A typed allocation that had to skip padding.
C10_Witness ==
  /\ last.op = "alloc_t" /\ last.ret # NULL
  /\ last.ret > last.before

\* ------------------------------------------------------------------------
\* The constructors of StackAllocator, as calls with arguments
\* ------------------------------------------------------------------------

\* Largest buffer size handed to StackAllocator(void*, size_type).
MaxBufferSize == 20

\* Buffers the caller may hand in: a null pointer with any size, or any
\* address from MaxAlignT on with a size that keeps the buffer in memory.
BufferAddrs == {NULL} \cup (MaxAlignT..(3 * MaxAlignT))
BufferSizes == 0..MaxBufferSize

\* The fields before a constructor body has run (default member
\* initialisers).
CtorInit ==
  /\ start_marker_ = 0
  /\ active_marker_ = 0
  /\ capacity_ = 0
  /\ owns_memory_ = TRUE
  /\ built = [start |-> 0, capacity |-> 0, checkpoint |-> 0]
  /\ last = NoCall
  /\ saved = NoSaved
  /\ requested = [total |-> 0, linear |-> TRUE, high |-> NULL]
  /\ other = NoOther
  /\ made = NoConstruction
  /\ guards = <<>>
  /\ NoPool

\* The fields after constructor result a; a constructor that throws leaves
\* no object behind.
Construct(a, op, memory, size) ==
  /\ made' = [op |-> op, memory |-> memory, size |-> size, threw |-> a.threw]
  /\ IF a.threw
     THEN UNCHANGED <<start_marker_, active_marker_, capacity_,
                      owns_memory_, built>>
     ELSE /\ start_marker_' = a.start
          /\ active_marker_' = a.active
          /\ capacity_' = a.capacity
          /\ owns_memory_' = a.owns
          /\ built' = [start |-> a.start, capacity |-> a.capacity,
                       checkpoint |-> save_checkpoint(a.start, a.active)]
  /\ UNCHANGED <<last, saved, requested, other, guards, poolVars,
               clientVars>>

ConstructOwned ==
  /\ made.op = "none"
  /\ \E size \in 0..MaxCapacity, memory \in MallocAddrs \cup {NULL} :
       Construct(StackAllocatorOwned(size, memory),
                 "StackAllocator(capacity)", memory, size)

ConstructExternal ==
  /\ made.op = "none"
  /\ \E memory \in BufferAddrs, size \in BufferSizes :
       /\ memory = NULL \/ ValidBuffer(memory, size)
       /\ Construct(StackAllocatorExternal(memory, size),
                    "StackAllocator(memory, size)", memory, size)

CtorNext ==
  \/ ConstructOwned
  \/ ConstructExternal

CtorSpec == CtorInit /\ [][CtorNext]_vars

\* Bytes skipped to bring memory up to a multiple of MaxAlignT, stated
\* arithmetically.
AlignmentOffset(memory) == (MaxAlignT - (memory % MaxAlignT)) % MaxAlignT

\* C11: StackAllocator(memory, size) fails exactly when memory is null,
\* size == 0, or fewer than alignof(max_align_t) usable bytes remain after
\* the base is aligned upward, for aligned and unaligned buffers alike.
C11_ExternalCtorFailsExactlyWhenTooSmall ==
  made.op = "StackAllocator(memory, size)"
    => (made.threw <=> (\/ made.memory = NULL
                        \/ made.size = 0
                        \/ made.size - AlignmentOffset(made.memory)
                             < MaxAlignT))

\* ------------------------------------------------------------------------
\* StackCheckpoint
\* ------------------------------------------------------------------------

\* Most StackCheckpoint objects alive at once.
MaxGuards == 2

\* Largest capacity of the arenas the guards are exercised on.
MaxGuardedCapacity == 2

\* An owning arena right after construction, with no guard alive.
GuardInit ==
  \E size \in 1..MaxGuardedCapacity, memory \in MallocAddrs :
    LET a == StackAllocatorOwned(size, memory)
    IN /\ ~a.threw
       /\ start_marker_ = a.start
       /\ active_marker_ = a.active
       /\ capacity_ = a.capacity
       /\ owns_memory_ = a.owns
       /\ built = [start |-> a.start, capacity |-> a.capacity,
                   checkpoint |-> save_checkpoint(a.start, a.active)]
       /\ last = NoCall
       /\ saved = NoSaved
       /\ requested = [total |-> 0, linear |-> TRUE, high |-> NULL]
       /\ other = NoOther
       /\ made = NoConstruction
       /\ guards = <<>>
       /\ NoPool

\* StackCheckpoint(StackAllocator& a): saved_(a.save_checkpoint()).
\* entry is the cursor the guard was constructed at.
GuardEnter ==
  /\ Len(guards) < MaxGuards
  /\ LET c == save_checkpoint(start_marker_, active_marker_)
     IN /\ guards' = Append(guards, [saved_ |-> c, entry |-> active_marker_])
        /\ last' = [op |-> "StackCheckpoint", size |-> 0, alignment |-> 0,
                    checkpoint |-> 0, ret |-> c, threw |-> FALSE,
                    before |-> active_marker_]
  /\ UNCHANGED <<start_marker_, active_marker_, capacity_, owns_memory_,
                 built, saved, requested, other, made, poolVars,
                 clientVars>>

\* ~StackCheckpoint(): allocator_.restore_checkpoint(saved_), run at scope
\* exit, so the innermost live guard goes first.
GuardExit ==
  /\ Len(guards) > 0
  /\ LET g == guards[Len(guards)]
         r == restore_checkpoint(start_marker_, active_marker_, capacity_,
                                 g.saved_)
     IN /\ active_marker_' = r.marker
        /\ last' = [op |-> "~StackCheckpoint", size |-> 0, alignment |-> 0,
                    checkpoint |-> g.saved_, ret |-> 0, threw |-> r.threw,
                    before |-> active_marker_]
        /\ requested' = IF r.threw THEN requested
                        ELSE [total |-> 0, linear |-> FALSE, high |-> NULL]
  /\ guards' = SubSeq(guards, 1, Len(guards) - 1)
  /\ saved' = NoSaved
  /\ UNCHANGED <<start_marker_, capacity_, owns_memory_, built, other,
                 made, poolVars, clientVars>>

GuardNext ==
  \/ Alloc
  \/ AllocT
  \/ RestoreCheckpoint
  \/ Reset
  \/ GuardEnter
  \/ GuardExit

GuardSpec == GuardInit /\ [][GuardNext]_vars

\* C12: whatever alloc, alloc_t, reset and restore_checkpoint calls were
\* made during a guard's lifetime, its destructor leaves the cursor at the
\* value it had when the guard was constructed, and the restore it performs
\* never fails.
C12_GuardRestoresEntryCursor ==
  [][Len(guards') < Len(guards)
       => /\ last'.op = "~StackCheckpoint"
          /\ ~last'.threw
          /\ active_marker_' = guards[Len(guards)].entry]_vars

\* A guard that, on exit, moves the cursor back up: the arena was reset or
\* restored below the guard's checkpoint during its lifetime.
C12_Witness ==
  /\ last.op = "~StackCheckpoint" /\ ~last.threw
  /\ last.before < active_marker_

\* ------------------------------------------------------------------------
\* ObjectPool: operations, as functions of the object's fields
\* ------------------------------------------------------------------------
\* An item is the value it carries; value_type() carries DefaultValue.
\* Each operation yields the new objects_ and size_limit_, what it
\* returned (ret: <<>> for nothing, <<v>> for a value), the what() of the
\* std::runtime_error it threw ("none" if it returned), and the hook calls
\* it made, in order.

DefaultValue == 0

on_acquire(item) == <<"on_acquire", item>>
on_release(item) == <<"on_release", item>>

\* n copies of x
RECURSIVE Repeat(_, _)
Repeat(x, n) == IF n = 0 THEN <<>> ELSE Append(Repeat(x, n - 1), x)

back(objects) == objects[Len(objects)]
pop_back(objects) == SubSeq(objects, 1, Len(objects) - 1)

\* ObjectPool() = default
ObjectPoolDefault ==
  [objects |-> <<>>, limit |-> nullopt, ret |-> <<>>, error |-> "none",
   hooks |-> <<>>]

\* ObjectPool(queue_type&& src)
ObjectPoolFromQueue(src) ==
  [objects |-> src, limit |-> nullopt, ret |-> <<>>, error |-> "none",
   hooks |-> <<>>]

\* Mutant: the constructor leaves the initial items to a later reserve.
ObjectPoolSized_empty(init_size, limit) ==
  IF has_value(limit) /\ init_size > value(limit)
  THEN [objects |-> <<>>, limit |-> nullopt, ret |-> <<>>,
        error |-> "ObjectPool::ObjectPool: initial size is > size limit.",
        hooks |-> <<>>]
  ELSE [objects |-> <<>>,
        limit |-> IF has_value(limit) /\ value(limit) = 0
                  THEN nullopt ELSE limit,
        ret |-> <<>>, error |-> "none", hooks |-> <<>>]

\* ObjectPool(size_type init_size, std::optional<size_type> limit)
ObjectPoolSized(init_size, limit) ==
  IF has_value(limit) /\ init_size > value(limit)
  THEN [objects |-> <<>>, limit |-> nullopt, ret |-> <<>>,
        error |-> "ObjectPool::ObjectPool: initial size is > size limit.",
        hooks |-> <<>>]
  ELSE [objects |-> Repeat(DefaultValue, init_size),
        limit |-> IF has_value(limit) /\ value(limit) = 0
                  THEN nullopt ELSE limit,
        ret |-> <<>>, error |-> "none",
        hooks |-> Repeat(on_release(DefaultValue), init_size)]

\* Mutant: the item is handed out and stays in the queue.
take_keeps_item(objects, limit) ==
  IF objects = <<>>
  THEN [objects |-> objects, limit |-> limit, ret |-> <<>>,
        error |-> "ObjectPool::take: queue is empty.", hooks |-> <<>>]
  ELSE [objects |-> objects, limit |-> limit,
        ret |-> <<back(objects)>>, error |-> "none",
        hooks |-> <<on_acquire(back(objects))>>]

\* Mutant: the item is taken from the front of the queue.
take_front(objects, limit) ==
  IF objects = <<>>
  THEN [objects |-> objects, limit |-> limit, ret |-> <<>>,
        error |-> "ObjectPool::take: queue is empty.", hooks |-> <<>>]
  ELSE [objects |-> Tail(objects), limit |-> limit,
        ret |-> <<Head(objects)>>, error |-> "none",
        hooks |-> <<on_acquire(Head(objects))>>]

\* value_type take()
take(objects, limit) ==
  IF objects = <<>>
  THEN [objects |-> objects, limit |-> limit, ret |-> <<>>,
        error |-> "ObjectPool::take: queue is empty.", hooks |-> <<>>]
  ELSE [objects |-> pop_back(objects), limit |-> limit,
        ret |-> <<back(objects)>>, error |-> "none",
        hooks |-> <<on_acquire(back(objects))>>]

\* std::optional<value_type> try_take()
try_take(objects, limit) ==
  IF objects = <<>>
  THEN [objects |-> objects, limit |-> limit, ret |-> <<>>,
        error |-> "none", hooks |-> <<>>]
  ELSE [objects |-> pop_back(objects), limit |-> limit,
        ret |-> <<back(objects)>>, error |-> "none",
        hooks |-> <<on_acquire(back(objects))>>]

\* Mutant: the limit test turns the item away one place early.
add_limit_one_short(objects, limit, item) ==
  IF has_value(limit) /\ Len(objects) + 1 >= value(limit)
  THEN [objects |-> objects, limit |-> limit, ret |-> <<>>,
        error |-> "ObjectPool::add: unable to add as size limit reached.",
        hooks |-> <<>>]
  ELSE [objects |-> Append(objects, item), limit |-> limit, ret |-> <<>>,
        error |-> "none", hooks |-> <<on_release(item)>>]

\* Mutant: the limit test lets one item too many in.
add_limit_off_by_one(objects, limit, item) ==
  IF has_value(limit) /\ Len(objects) > value(limit)
  THEN [objects |-> objects, limit |-> limit, ret |-> <<>>,
        error |-> "ObjectPool::add: unable to add as size limit reached.",
        hooks |-> <<>>]
  ELSE [objects |-> Append(objects, item), limit |-> limit, ret |-> <<>>,
        error |-> "none", hooks |-> <<on_release(item)>>]

\* void add(value_type&& back)
add(objects, limit, item) ==
  IF has_value(limit) /\ Len(objects) >= value(limit)
  THEN [objects |-> objects, limit |-> limit, ret |-> <<>>,
        error |-> "ObjectPool::add: unable to add as size limit reached.",
        hooks |-> <<>>]
  ELSE [objects |-> Append(objects, item), limit |-> limit, ret |-> <<>>,
        error |-> "none", hooks |-> <<on_release(item)>>]

\* Mutant: the item is inserted before the hook runs, and stays in when
\* the hook throws.
try_add_insert_first(objects, limit, item, fault) ==
  IF has_value(limit) /\ Len(objects) >= value(limit)
  THEN [objects |-> objects, limit |-> limit, ret |-> <<FALSE>>,
        error |-> "none", hooks |-> <<>>]
  ELSE IF fault.site = "push_back"
  THEN [objects |-> objects, limit |-> limit, ret |-> <<FALSE>>,
        error |-> "none", hooks |-> <<>>]
  ELSE IF fault.site = "on_release"
  THEN [objects |-> Append(objects, item), limit |-> limit,
        ret |-> <<FALSE>>, error |-> "none", hooks |-> <<on_release(item)>>]
  ELSE [objects |-> Append(objects, item), limit |-> limit,
        ret |-> <<TRUE>>, error |-> "none", hooks |-> <<on_release(item)>>]

\* bool try_add(value_type&& back); fault is the exception, if any, that
\* R::on_release or objects_.push_back raises inside the try block.
try_add(objects, limit, item, fault) ==
  IF has_value(limit) /\ Len(objects) >= value(limit)
  THEN [objects |-> objects, limit |-> limit, ret |-> <<FALSE>>,
        error |-> "none", hooks |-> <<>>]
  ELSE IF fault.site = "on_release"
  THEN [objects |-> objects, limit |-> limit, ret |-> <<FALSE>>,
        error |-> "none", hooks |-> <<on_release(item)>>]
  ELSE IF fault.site = "push_back"
  THEN [objects |-> objects, limit |-> limit, ret |-> <<FALSE>>,
        error |-> "none", hooks |-> <<on_release(item)>>]
  ELSE [objects |-> Append(objects, item), limit |-> limit,
        ret |-> <<TRUE>>, error |-> "none", hooks |-> <<on_release(item)>>]

\* Mutant: the rollback removes nothing.
resize_keeps_all(objects, count) == objects

\* objects_.resize(count)
resize(objects, count) ==
  IF count <= Len(objects)
  THEN SubSeq(objects, 1, count)
  ELSE objects \o Repeat(DefaultValue, count - Len(objects))

\* template <bool ThrowOnError> bool reserve_impl(size_type target_size);
\* fault is the exception, if any, that objects_.emplace_back or
\* ReleasePolicy::on_release raises at iteration fault.index of the loop.
\* objects_.reserve(target_size) changes no contents.
reserve_impl(ThrowOnError, objects, limit, target_size, fault) ==
  LET current_size == Len(objects)
      to_create == target_size - current_size
      result(objs, ret, error, hooks) ==
        [objects |-> objs, limit |-> limit, ret |-> ret,
         error |-> error, hooks |-> hooks]
      failed == fault.site # "none" /\ fault.index < to_create
      \* items emplaced by the loop before it ended or was left
      emplaced == IF ~failed THEN to_create
                  ELSE IF fault.site = "on_release" THEN fault.index + 1
                  ELSE fault.index
      grown == objects \o Repeat(DefaultValue, emplaced)
      calls == Repeat(on_release(DefaultValue), emplaced)
  IN IF target_size = 0
     THEN IF ThrowOnError
          THEN result(objects, <<>>,
                      "ObjectPool::reserve: target size is zero.", <<>>)
          ELSE result(objects, <<TRUE>>, "none", <<>>)
     ELSE IF current_size >= target_size
     THEN result(objects, <<TRUE>>, "none", <<>>)
     ELSE IF has_value(limit) /\ target_size > value(limit)
     THEN IF ThrowOnError
          THEN result(
                 objects, <<>>,
                 "ObjectPool::reserve: cannot reserve more than size limit.",
                 <<>>)
          ELSE result(objects, <<FALSE>>, "none", <<>>)
     ELSE IF failed
     THEN \* the catch block: roll back, then rethrow or return false
          IF ThrowOnError
          THEN result(resize(grown, current_size), <<>>, fault.site, calls)
          ELSE result(resize(grown, current_size), <<FALSE>>, "none", calls)
     ELSE result(grown, <<TRUE>>, "none", calls)

\* Mutant: a target above the limit fills the pool up to the limit before
\* the call fails.
reserve_clamped_to_limit(objects, limit, target_size, fault) ==
  IF has_value(limit) /\ target_size > value(limit)
       /\ Len(objects) < target_size
  THEN [reserve_impl(TRUE, objects, limit, value(limit), fault)
          EXCEPT !.ret = <<>>,
                 !.error =
                   "ObjectPool::reserve: cannot reserve more than size limit."]
  ELSE [reserve_impl(TRUE, objects, limit, target_size, fault)
          EXCEPT !.ret = <<>>]

\* Mutant: a zero target is a silent no-op for the throwing variant too.
reserve_zero_is_noop(objects, limit, target_size, fault) ==
  [reserve_impl(target_size # 0, objects, limit, target_size, fault)
     EXCEPT !.ret = <<>>]

\* void reserve(size_type target_size)
reserve(objects, limit, target_size, fault) ==
  [reserve_impl(TRUE, objects, limit, target_size, fault)
     EXCEPT !.ret = <<>>]

\* Mutant: the outcome of reserve_impl is dropped.
try_reserve_always_true(objects, limit, target_size, fault) ==
  [reserve_impl(FALSE, objects, limit, target_size, fault)
     EXCEPT !.ret = <<TRUE>>]

\* bool try_reserve(size_type target_size)
try_reserve(objects, limit, target_size, fault) ==
  reserve_impl(FALSE, objects, limit, target_size, fault)

\* void set_size_limit(std::optional<size_type> limit) noexcept
set_size_limit(objects, limit, new_limit) ==
  [objects |-> objects, limit |-> new_limit, ret |-> <<>>,
   error |-> "none", hooks |-> <<>>]

\* size_type size() const
size_of(objects) == Len(objects)

\* bool empty() const
empty_of(objects) == objects = <<>>

\* ------------------------------------------------------------------------
\* ObjectPool: state machine
\* ------------------------------------------------------------------------
\* Every operation below holds mutex_ (std::scoped_lock) from before its
\* first access to objects_ or size_limit_ until it returns or throws, so
\* each call is one step.

\* Most items the model lets a pool hold.
MaxPoolSize == 5

\* Largest value carried by an item a caller constructs.
MaxItemValue == 1

\* Largest init_size handed to the constructor.
MaxInitSize == 3

\* Longest run of add calls followed from the constructor on.
MaxScriptedAdds == 4

Items == 0..MaxItemValue
InitSizes == 0..MaxInitSize
Limits == {nullopt, some(0), some(2), some(5)}
Queues == {<<1>>, <<1, 0>>}
Targets == {0, 1, 3, MaxPoolSize + 1}
AddFaults ==
  {NoFault, FaultAt("on_release", 0), FaultAt("push_back", 0)}
ReserveFaults ==
  {NoFault} \cup {FaultAt(site, i) :
                    site \in {"emplace_back", "on_release"}, i \in 0..1}

\* No arena is in use.
NoStackAllocator ==
  /\ start_marker_ = 0
  /\ active_marker_ = 0
  /\ capacity_ = 0
  /\ owns_memory_ = TRUE
  /\ built = [start |-> 0, capacity |-> 0, checkpoint |-> 0]
  /\ last = NoCall
  /\ saved = NoSaved
  /\ requested = [total |-> 0, linear |-> TRUE, high |-> NULL]
  /\ other = NoOther
  /\ made = NoConstruction
  /\ guards = <<>>

\* The outcome r of a call becomes the state of the pool.
PoolCallRecord(op, arg, limit, fault, r) ==
  [op |-> op, arg |-> arg, limit |-> limit, ret |-> r.ret,
   error |-> r.error, hooks |-> r.hooks, fault |-> fault]

\* A constructor that throws leaves no pool behind.
PoolAlive ==
  /\ ~(pool.op = "ObjectPool(init_size, limit)" /\ pool.error # "none")
  \* an exception that leaves ~PoolLease ends the program (std::terminate)
  /\ ~(pool.op = "~PoolLease" /\ pool.error # "none")

\* The pool right after a constructor call, successful or not.
PoolInit ==
  /\ NoStackAllocator
  /\ NoClients
  /\ \/ /\ objects_ = ObjectPoolDefault.objects
        /\ size_limit_ = ObjectPoolDefault.limit
        /\ pool = PoolCallRecord("ObjectPool()", 0, nullopt, NoFault,
                                 ObjectPoolDefault)
        /\ script = OffScript
     \/ \E src \in Queues :
          LET r == ObjectPoolFromQueue(src)
          IN /\ objects_ = r.objects
             /\ size_limit_ = r.limit
             /\ pool = PoolCallRecord("ObjectPool(src)", Len(src), nullopt,
                                      NoFault, r)
             /\ script = OffScript
     \/ \E init_size \in InitSizes, limit \in Limits :
          LET r == ObjectPoolSized(init_size, limit)
          IN /\ objects_ = r.objects
             /\ size_limit_ = r.limit
             /\ pool = PoolCallRecord("ObjectPool(init_size, limit)",
                                      init_size, limit, NoFault, r)
             /\ script = IF r.error = "none"
                         THEN [on |-> TRUE, init_size |-> init_size,
                               limit |-> limit, adds |-> 0]
                         ELSE OffScript

PoolStep(op, arg, limit, fault, r) ==
  /\ Len(r.objects) <= MaxPoolSize
  /\ objects_' = r.objects
  /\ size_limit_' = r.limit
  /\ pool' = PoolCallRecord(op, arg, limit, fault, r)
  /\ script' = IF op = "add" /\ script.on /\ script.adds < MaxScriptedAdds
                THEN [script EXCEPT !.adds = @ + 1]
                ELSE IF op = "try_add" /\ script.on
                THEN [script EXCEPT !.on = FALSE]
                ELSE OffScript
  /\ UNCHANGED <<arenaVars, made, guards>>

PoolCall(op, arg, limit, fault, r) ==
  /\ PoolStep(op, arg, limit, fault, r)
  /\ UNCHANGED clientVars

Take ==
  /\ PoolAlive
  /\ PoolCall("take", 0, nullopt, NoFault, take(objects_, size_limit_))

TryTake ==
  /\ PoolAlive
  /\ PoolCall("try_take", 0, nullopt, NoFault,
              try_take(objects_, size_limit_))

Add ==
  /\ PoolAlive
  /\ \E item \in Items :
       PoolCall("add", item, nullopt, NoFault,
                add(objects_, size_limit_, item))

TryAdd ==
  /\ PoolAlive
  /\ \E item \in Items, fault \in AddFaults :
       PoolCall("try_add", item, nullopt, fault,
                try_add(objects_, size_limit_, item, fault))

Reserve ==
  /\ PoolAlive
  /\ \E target_size \in Targets, fault \in ReserveFaults :
       PoolCall("reserve", target_size, nullopt, fault,
                reserve(objects_, size_limit_, target_size, fault))

TryReserve ==
  /\ PoolAlive
  /\ \E target_size \in Targets, fault \in ReserveFaults :
       PoolCall("try_reserve", target_size, nullopt, fault,
                try_reserve(objects_, size_limit_, target_size, fault))

SetSizeLimit ==
  /\ PoolAlive
  /\ \E limit \in Limits :
       PoolCall("set_size_limit", 0, limit, NoFault,
                set_size_limit(objects_, size_limit_, limit))

PoolNext ==
  \/ Take
  \/ TryTake
  \/ Add
  \/ TryAdd
  \/ Reserve
  \/ TryReserve
  \/ SetSizeLimit

PoolSpec == PoolInit /\ [][PoolNext]_vars

\* ------------------------------------------------------------------------
\* PoolLease: operations, as functions of the lease's and the pool's fields
\* ------------------------------------------------------------------------
\* A lease object is its fields obj_ and active_; pool_ always points to
\* the one pool.  obj_ is <<v>>, or <<>> once its value was moved out.

\* Mutant: on an empty pool the lease holds a default-constructed item.
PoolLeaseCtor_default_on_empty(objects, limit) ==
  LET r == take(objects, limit)
  IN IF r.error = "none"
     THEN [call |-> r, constructed |-> TRUE,
           lease |-> [obj_ |-> r.ret, active_ |-> TRUE]]
     ELSE [call |-> [r EXCEPT !.error = "none"], constructed |-> TRUE,
           lease |-> [obj_ |-> <<DefaultValue>>, active_ |-> TRUE]]

\* PoolLease(Pool& p) : pool_(&p), obj_(p.take()) {}
\* constructed tells whether the constructor returned, i.e. a lease exists.
PoolLeaseCtor(objects, limit) ==
  LET r == take(objects, limit)
  IN IF r.error = "none"
     THEN [call |-> r, constructed |-> TRUE,
           lease |-> [obj_ |-> r.ret, active_ |-> TRUE]]
     ELSE [call |-> r, constructed |-> FALSE,
           lease |-> [obj_ |-> <<>>, active_ |-> FALSE]]

\* Mutant: the source stays active.
PoolLeaseMove_source_stays_active(o) ==
  [dst |-> [obj_ |-> o.obj_, active_ |-> o.active_],
   src |-> [obj_ |-> o.obj_, active_ |-> o.active_]]

\* PoolLease(PoolLease&& o) noexcept
PoolLeaseMove(o) ==
  [dst |-> [obj_ |-> o.obj_, active_ |-> o.active_],
   src |-> [obj_ |-> <<>>, active_ |-> FALSE]]

\* value_type release() noexcept
release(lease) ==
  [ret |-> lease.obj_, lease |-> [obj_ |-> <<>>, active_ |-> FALSE]]

\* ~PoolLease(): the call it makes on the pool, if any
PoolLeaseDtor(lease, objects, limit) ==
  IF lease.active_
  THEN add(objects, limit, value(lease.obj_))
  ELSE [objects |-> objects, limit |-> limit, ret |-> <<>>,
        error |-> "none", hooks |-> <<>>]

\* ------------------------------------------------------------------------
\* PoolLease: the state machine of a pool, its leases and other callers
\* ------------------------------------------------------------------------

\* Most lease objects that come to exist.
MaxLeases == 3

\* The value written through lease->, operator-> or get().
Modified == 1

LeaseNames == 1..MaxLeases
LeaseLimits == {nullopt, some(1), some(2)}

\* A lease object that was not constructed.  source names the lease it was
\* move-constructed from (0: from the pool), token the lease that took the
\* item held; returned and released count, for the item this lease took,
\* the adds made by destructors and the release() calls.
NoLease ==
  [state |-> "none", obj_ |-> <<>>, active_ |-> FALSE, source |-> 0,
   token |-> 0, returned |-> 0, released |-> FALSE]

\* The next lease object to be constructed.
FreshLease(n) ==
  /\ leases[n].state = "none"
  /\ \A m \in LeaseNames : m < n => leases[m].state # "none"

LeaseInit ==
  /\ NoStackAllocator
  /\ mutex_ = 0
  /\ threads = <<>>
  /\ leases = [n \in LeaseNames |-> NoLease]
  /\ script = OffScript
  /\ \E init_size \in 0..MaxLeases, limit \in LeaseLimits :
       LET r == ObjectPoolSized(init_size, limit)
       IN /\ r.error = "none"
          /\ objects_ = r.objects
          /\ size_limit_ = r.limit
          /\ pool = PoolCallRecord("ObjectPool(init_size, limit)",
                                   init_size, limit, NoFault, r)

\* PoolLease lease(pool);
LeaseConstruct ==
  /\ PoolAlive
  /\ \E n \in LeaseNames :
       LET c == PoolLeaseCtor(objects_, size_limit_)
       IN /\ FreshLease(n)
          /\ PoolStep("PoolLease(pool)", n, nullopt, NoFault, c.call)
          /\ leases' = IF c.constructed
                       THEN [leases EXCEPT
                               ![n] = [NoLease EXCEPT
                                         !.state = "alive",
                                         !.obj_ = c.lease.obj_,
                                         !.active_ = c.lease.active_,
                                         !.token = n]]
                       ELSE leases
          /\ UNCHANGED <<mutex_, threads>>

\* PoolLease lease(std::move(other));
LeaseMove ==
  /\ PoolAlive
  /\ \E n \in LeaseNames, m \in LeaseNames :
       LET c == PoolLeaseMove(leases[m])
       IN /\ FreshLease(n)
          /\ leases[m].state = "alive"
          /\ leases' = [leases EXCEPT
                          ![n] = [NoLease EXCEPT
                                    !.state = "alive",
                                    !.obj_ = c.dst.obj_,
                                    !.active_ = c.dst.active_,
                                    !.source = m,
                                    !.token = leases[m].token],
                          ![m] = [@ EXCEPT
                                    !.obj_ = c.src.obj_,
                                    !.active_ = c.src.active_,
                                    !.token = IF c.src.active_
                                              THEN @ ELSE 0]]
          /\ UNCHANGED <<arenaVars, made, guards, poolVars, mutex_, threads>>

\* lease->s = ...;
LeaseModify ==
  /\ PoolAlive
  /\ \E n \in LeaseNames :
       /\ leases[n].state = "alive"
       /\ leases[n].obj_ # <<>>
       /\ leases[n].obj_ # <<Modified>>
       /\ leases' = [leases EXCEPT ![n].obj_ = <<Modified>>]
       /\ UNCHANGED <<arenaVars, made, guards, poolVars, mutex_, threads>>

\* auto item = lease.release();
LeaseRelease ==
  /\ PoolAlive
  /\ \E n \in LeaseNames :
       LET t == leases[n].token
           c == release(leases[n])
       IN /\ leases[n].state = "alive"
          /\ leases' = [m \in LeaseNames |->
                          LET l == IF m = n
                                   THEN [leases[n] EXCEPT
                                           !.obj_ = c.lease.obj_,
                                           !.active_ = c.lease.active_,
                                           !.token = 0]
                                   ELSE leases[m]
                          IN IF m = t THEN [l EXCEPT !.released = TRUE]
                             ELSE l]
          /\ UNCHANGED <<arenaVars, made, guards, poolVars, mutex_, threads>>

\* The lease goes out of scope or is deleted.
LeaseDestroy ==
  /\ PoolAlive
  /\ \E n \in LeaseNames :
       LET t == leases[n].token
           r == PoolLeaseDtor(leases[n], objects_, size_limit_)
           added == leases[n].active_ /\ r.error = "none"
       IN /\ leases[n].state = "alive"
          /\ IF leases[n].active_
             THEN PoolStep("~PoolLease", n, nullopt, NoFault, r)
             ELSE UNCHANGED <<arenaVars, made, guards, poolVars>>
          /\ leases' = [m \in LeaseNames |->
                          LET l == IF m = n
                                   THEN [NoLease EXCEPT
                                           !.state = "destroyed",
                                           !.returned = leases[n].returned,
                                           !.released = leases[n].released]
                                   ELSE leases[m]
                          IN IF m = t /\ added
                             THEN [l EXCEPT !.returned = @ + 1]
                             ELSE l]
          /\ UNCHANGED <<mutex_, threads>>

\* Calls that other threads make on the pool while leases exist.
OtherAdd ==
  /\ PoolAlive
  /\ size_of(objects_) < MaxLeases
  /\ PoolCall("add", DefaultValue, nullopt, NoFault,
              add(objects_, size_limit_, DefaultValue))

OtherTryAdd ==
  /\ PoolAlive
  /\ size_of(objects_) < MaxLeases
  /\ PoolCall("try_add", DefaultValue, nullopt, NoFault,
              try_add(objects_, size_limit_, DefaultValue, NoFault))

OtherTake ==
  /\ PoolAlive
  /\ PoolCall("take", 0, nullopt, NoFault, take(objects_, size_limit_))

OtherReserve ==
  /\ PoolAlive
  /\ size_of(objects_) < MaxLeases
  /\ PoolCall("reserve", MaxLeases, nullopt, NoFault,
              reserve(objects_, size_limit_, MaxLeases, NoFault))

OtherSetSizeLimit ==
  /\ PoolAlive
  /\ \E limit \in LeaseLimits :
       PoolCall("set_size_limit", 0, limit, NoFault,
                set_size_limit(objects_, size_limit_, limit))

LeaseNext ==
  \/ LeaseConstruct
  \/ LeaseMove
  \/ LeaseModify
  \/ LeaseRelease
  \/ LeaseDestroy
  \/ OtherAdd
  \/ OtherTryAdd
  \/ OtherTake
  \/ OtherReserve
  \/ OtherSetSizeLimit

LeaseSpec == LeaseInit /\ [][LeaseNext]_vars

\* ------------------------------------------------------------------------
\* ObjectPool used by several threads: the state machine
\* ------------------------------------------------------------------------
\* A call that takes the lock is two steps: std::scoped_lock acquires
\* mutex_, then the body runs and the lock's destructor releases mutex_, on
\* return and on throw alike.

\* Number of threads.
MaxThreads == 2

\* Most successful takes by one thread.
MaxCycles == 2

ThreadNames == 1..MaxThreads
ThreadLimits == {nullopt, some(2)}
ZeroTarget == 0

\* pc: "idle" or the call the thread is in; held: the item the thread took
\* and has not added back; takes, adds: its successful calls; initial:
\* size() when the thread started.
NewThread(initial) ==
  [pc |-> "idle", held |-> <<>>, takes |-> 0, adds |-> 0,
   initial |-> initial]

ThreadInit ==
  /\ NoStackAllocator
  /\ mutex_ = 0
  /\ leases = <<>>
  /\ script = OffScript
  /\ \E init_size \in 0..MaxThreads, limit \in ThreadLimits :
       LET r == ObjectPoolSized(init_size, limit)
       IN /\ r.error = "none"
          /\ objects_ = r.objects
          /\ size_limit_ = r.limit
          /\ pool = PoolCallRecord("ObjectPool(init_size, limit)",
                                   init_size, limit, NoFault, r)
          /\ threads = [t \in ThreadNames |-> NewThread(size_of(r.objects))]

\* The outcome r of the call of thread t becomes the state of the pool.
ThreadCall(t, op, arg, r) ==
  /\ objects_' = r.objects
  /\ size_limit_' = r.limit
  /\ pool' = PoolCallRecord(op, arg, nullopt, NoFault, r)
  /\ UNCHANGED <<arenaVars, made, guards, script, leases>>

\* take(): std::scoped_lock<std::mutex> lock(mutex_);
ThreadTakeLock ==
  \E t \in ThreadNames :
    /\ threads[t].pc = "idle"
    /\ threads[t].held = <<>>
    /\ threads[t].takes < MaxCycles
    /\ mutex_ = 0
    /\ mutex_' = t
    /\ threads' = [threads EXCEPT ![t].pc = "take"]
    /\ UNCHANGED <<arenaVars, made, guards, poolVars, leases>>

\* take(): the body, under the lock
ThreadTake ==
  \E t \in ThreadNames :
    LET r == take(objects_, size_limit_)
    IN /\ threads[t].pc = "take"
       /\ mutex_ = t
       /\ ThreadCall(t, "take", 0, r)
       /\ mutex_' = 0
       /\ threads' = [threads EXCEPT
                        ![t].pc = "idle",
                        ![t].held = r.ret,
                        ![t].takes = IF r.error = "none" THEN @ + 1 ELSE @]

\* add(): std::scoped_lock<std::mutex> lock(mutex_);
ThreadAddLock ==
  \E t \in ThreadNames :
    /\ threads[t].pc = "idle"
    /\ threads[t].held # <<>>
    /\ mutex_ = 0
    /\ mutex_' = t
    /\ threads' = [threads EXCEPT ![t].pc = "add"]
    /\ UNCHANGED <<arenaVars, made, guards, poolVars, leases>>

\* add(): the body, under the lock
ThreadAdd ==
  \E t \in ThreadNames :
    LET r == add(objects_, size_limit_, value(threads[t].held))
    IN /\ threads[t].pc = "add"
       /\ mutex_ = t
       /\ ThreadCall(t, "add", value(threads[t].held), r)
       /\ mutex_' = 0
       /\ threads' = [threads EXCEPT
                        ![t].pc = "idle",
                        ![t].held = IF r.error = "none" THEN <<>> ELSE @,
                        ![t].adds = IF r.error = "none" THEN @ + 1 ELSE @]

\* reserve(0): reserve_impl leaves before it declares the lock
ThreadReserveZero ==
  \E t \in ThreadNames :
    /\ threads[t].pc = "idle"
    /\ ThreadCall(t, "reserve", ZeroTarget,
                  reserve(objects_, size_limit_, ZeroTarget, NoFault))
    /\ UNCHANGED <<mutex_, threads>>

\* try_reserve(0): reserve_impl leaves before it declares the lock
ThreadTryReserveZero ==
  \E t \in ThreadNames :
    /\ threads[t].pc = "idle"
    /\ ThreadCall(t, "try_reserve", ZeroTarget,
                  try_reserve(objects_, size_limit_, ZeroTarget, NoFault))
    /\ UNCHANGED <<mutex_, threads>>

ThreadNext ==
  \/ ThreadTakeLock
  \/ ThreadTake
  \/ ThreadAddLock
  \/ ThreadAdd
  \/ ThreadReserveZero
  \/ ThreadTryReserveZero

ThreadSpec == ThreadInit /\ [][ThreadNext]_vars

\* size_type size() const / std::optional<size_type> size_limit() const
size == size_of(objects_)
size_limit == size_limit_

\* ------------------------------------------------------------------------
\* Claims about ObjectPool
\* ------------------------------------------------------------------------

LimitReached == has_value(size_limit_) /\ size >= value(size_limit_)

\* C13: take() on a pool of size n >= 1 returns the most recently added
\* item that is still in the pool and leaves size n - 1; an add() that
\* follows it leaves size n again; an item added right before a take() is
\* the one that take() returns.
C13_TakeIsLifoAndAddRestoresSize ==
  [][/\ (pool'.op = "take" /\ size >= 1)
          => /\ pool'.error = "none"
             /\ pool'.ret = <<back(objects_)>>
             /\ objects_' = pop_back(objects_)
             /\ size' = size - 1
     /\ (pool.op = "take" /\ pool.error = "none" /\ pool'.op = "add")
          => size' = size + 1
     /\ (pool.op = "add" /\ pool.error = "none" /\ pool'.op = "take")
          => pool'.ret = <<pool.arg>>]_vars

\* C14: on an empty pool take() throws std::runtime_error and try_take()
\* returns an empty optional, and either way the pool is unchanged and the
\* acquire hook is not called; on a non-empty pool take() and try_take()
\* remove and return the same item.
C14_EmptyTakeFailsAndTryTakeAgrees ==
  [][/\ (objects_ = <<>> /\ pool'.op = "take")
          => /\ pool'.error = "ObjectPool::take: queue is empty."
             /\ pool'.ret = <<>>
             /\ pool'.hooks = <<>>
             /\ objects_' = objects_ /\ size_limit_' = size_limit_
     /\ (objects_ = <<>> /\ pool'.op = "try_take")
          => /\ pool'.error = "none"
             /\ pool'.ret = nullopt
             /\ pool'.hooks = <<>>
             /\ objects_' = objects_ /\ size_limit_' = size_limit_
     /\ objects_ # <<>>
          => /\ take(objects_, size_limit_) = try_take(objects_, size_limit_)
             /\ pool'.op \in {"take", "try_take"}
                  => /\ pool'.error = "none"
                     /\ pool'.ret = <<back(objects_)>>
                     /\ objects_' = pop_back(objects_)]_vars

C14_Witness ==
  /\ pool.op = "try_take"
  /\ pool.ret = <<1>>
  /\ objects_ = <<0>>

\* C15: whenever a size limit is set, size() <= size_limit().
C15_SizeWithinLimit ==
  has_value(size_limit) => size <= value(size_limit)

\* C16: add() throws LimitExceeded exactly when a limit is set and size()
\* >= limit, leaving the pool unchanged and the release hook uncalled;
\* otherwise it calls the release hook exactly once, on the item, and the
\* size grows by one.
C16_AddFailsExactlyAtLimit ==
  [][pool'.op = "add"
       => IF LimitReached
          THEN /\ pool'.error =
                    "ObjectPool::add: unable to add as size limit reached."
               /\ pool'.hooks = <<>>
               /\ objects_' = objects_ /\ size_limit_' = size_limit_
          ELSE /\ pool'.error = "none"
               /\ pool'.hooks = <<on_release(pool'.arg)>>
               /\ objects_' = Append(objects_, pool'.arg)
               /\ size' = size + 1
               /\ size_limit_' = size_limit_]_vars

C16_Witness ==
  /\ pool.op = "add"
  /\ pool.error # "none"
  /\ has_value(size_limit)
  /\ size = value(size_limit)
  /\ size > 0

\* C17: try_add() never throws; it returns false when a limit is set and
\* size() >= limit, and when the release hook fails; whenever it returns
\* false the contents are unchanged; it returns true exactly when the item
\* was inserted.
C17_TryAddNeverThrows ==
  [][pool'.op = "try_add"
       => /\ pool'.error = "none"
          /\ pool'.ret \in {<<TRUE>>, <<FALSE>>}
          /\ LimitReached => pool'.ret = <<FALSE>>
          /\ pool'.fault.site = "on_release" => pool'.ret = <<FALSE>>
          /\ pool'.ret = <<FALSE>>
               => objects_' = objects_ /\ size_limit_' = size_limit_
          /\ pool'.ret = <<TRUE>>
               <=> objects_' = Append(objects_, pool'.arg)]_vars

C17_Witness ==
  /\ pool.op = "try_add"
  /\ pool.fault.site = "on_release"
  /\ pool.ret = <<FALSE>>
  /\ ~LimitReached
  /\ size > 0

\* The pool was built by ObjectPool(3, 5) and only add() has been called
\* on it since.
Scripted3of5 ==
  /\ script.on
  /\ script.init_size = 3
  /\ script.limit = some(5)

\* C18, as stated: after ObjectPool(3, 5), three add() calls succeed and a
\* fourth insertion, by try_add(), returns false and leaves size() == 5.
C18_ThreeAddsThenTryAddFails ==
  [][Scripted3of5
       => /\ (script.adds < 3 /\ pool'.op = "add")
               => pool'.error = "none"
          /\ (script.adds = 3 /\ pool'.op = "try_add")
               => pool'.ret = <<FALSE>> /\ size' = 5]_vars

\* C18, amended: after ObjectPool(3, 5), two add() calls succeed and a
\* third insertion, by try_add(), returns false and leaves size() == 5.
C18_TwoAddsThenTryAddFails ==
  [][Scripted3of5
       => /\ (script.adds < 2 /\ pool'.op = "add")
               => pool'.error = "none" /\ size' = size + 1
          /\ (script.adds = 2 /\ pool'.op = "try_add")
               => /\ pool'.ret = <<FALSE>>
                  /\ pool'.error = "none"
                  /\ objects_' = objects_
                  /\ size' = 5]_vars

C18_Witness ==
  /\ ~script.on
  /\ script.init_size = 3
  /\ script.limit = some(5)
  /\ script.adds = 2
  /\ pool.op = "try_add"
  /\ pool.fault = NoFault
  /\ pool.ret = <<FALSE>>
  /\ size = 5

C20_ZeroLimitIsUnlimited ==
  (pool.op = "ObjectPool(init_size, limit)" /\ pool.limit = some(0))
    => /\ pool.error = "none"
       /\ size_limit = nullopt
       /\ size = pool.arg

\* The call just made is reserve(t) or try_reserve(t).
ReserveCalled == pool'.op \in {"reserve", "try_reserve"}
ReserveSucceeded ==
  \/ pool'.op = "reserve" /\ pool'.error = "none"
  \/ pool'.op = "try_reserve" /\ pool'.ret = <<TRUE>>

\* C21: a limit of 0 means unlimited wherever a limit is supplied: after
\* set_size_limit(0), add and try_add succeed at every size.
C21_ZeroSetLimitIsUnlimited ==
  [][(/\ pool.op = "set_size_limit" /\ pool.limit = some(0)
      /\ pool'.op \in {"add", "try_add"} /\ pool'.fault = NoFault)
       => /\ pool'.error = "none"
          /\ objects_' = Append(objects_, pool'.arg)]_vars

ReserveFailedPartway ==
  /\ ReserveCalled
  /\ size < pool'.arg
  /\ ~(has_value(size_limit) /\ pool'.arg > value(size_limit))
  /\ pool'.fault.site # "none"
  /\ pool'.fault.index < pool'.arg - size

PoolCalled ==
  <<pool'.op, pool'.arg, pool'.error>> # <<pool.op, pool.arg, pool.error>>

\* The step just taken destroys lease n.
Destroyed(n) == leases[n].state = "alive" /\ leases'[n].state = "destroyed"

\* C26: constructing a PoolLease from a pool of size n >= 1 leaves size
\* n - 1; destroying the still-active lease, with no other call on the pool
\* in between, puts the leased item as modified through the lease back on
\* top, size n again; a lease that release() was called on leaves the pool
\* alone when it is destroyed.
C26_LeaseReturnsItemOnDestruction ==
  [][/\ (pool'.op = "PoolLease(pool)" /\ Len(objects_) >= 1 /\ PoolCalled)
          => /\ pool'.error = "none"
             /\ objects_' = pop_back(objects_)
             /\ leases'[pool'.arg].state = "alive"
             /\ leases'[pool'.arg].obj_ = <<back(objects_)>>
     /\ \A n \in LeaseNames :
          (pool.op = "PoolLease(pool)" /\ Destroyed(n))
            => IF leases[n].active_
               THEN objects_' = Append(objects_, value(leases[n].obj_))
               ELSE objects_' = objects_]_vars

\* C27: when a still-active PoolLease is destroyed its item is returned to
\* the pool, size() grows by one and the release hook runs on the item,
\* whatever other threads did to the pool since the lease was constructed.
C27_ActiveLeaseAlwaysReturnsItem ==
  [][\A n \in LeaseNames :
       (Destroyed(n) /\ leases[n].active_)
         => /\ pool'.op = "~PoolLease"
            /\ pool'.error = "none"
            /\ pool'.hooks = <<on_release(value(leases[n].obj_))>>
            /\ objects_' = Append(objects_, value(leases[n].obj_))]_vars

\* The step just taken move-constructs lease n from lease m.
MovedInto(n, m) ==
  /\ leases[n].state = "none" /\ leases'[n].state = "alive"
  /\ leases'[n].source = m

\* C28: move construction hands the item and the active flag of the source
\* to the new lease and deactivates the source; over any sequence of moves,
\* release() calls and destructions an item taken by a lease is added back
\* at most once, and never once release() was called on the lease holding
\* it; an active lease holds its item.
C28_LeaseReturnsItemAtMostOnce ==
  [][/\ \A n \in LeaseNames, m \in LeaseNames :
          MovedInto(n, m)
            => /\ leases'[n].obj_ = leases[m].obj_
               /\ leases'[n].active_ = leases[m].active_
               /\ ~leases'[m].active_
     /\ \A n \in LeaseNames :
          /\ leases'[n].returned <= 1
          /\ leases'[n].released => leases'[n].returned = 0
          /\ (leases'[n].state = "alive" /\ leases'[n].active_)
               => leases'[n].obj_ # <<>>]_vars

C28_Witness ==
  /\ leases[1].state = "destroyed"
  /\ leases[2].state = "destroyed"
  /\ leases[3].state = "destroyed"
  /\ leases[1].returned = 1
  /\ pool.op = "~PoolLease"
  /\ pool.arg = 3
  /\ pool.hooks = <<on_release(Modified)>>

\* C29: constructing a PoolLease on an empty pool fails with take()'s
\* error; no lease comes to exist, the pool stays empty, and so no add is
\* ever made for the lease.
C29_LeaseOnEmptyPoolFails ==
  [][(pool'.op = "PoolLease(pool)" /\ objects_ = <<>> /\ PoolCalled)
       => /\ pool'.error = "ObjectPool::take: queue is empty."
          /\ pool'.hooks = <<>>
          /\ objects_' = <<>>
          /\ leases' = leases
          /\ leases'[pool'.arg].state = "none"]_vars

C29_Witness ==
  /\ pool.op = "PoolLease(pool)"
  /\ pool.error = "ObjectPool::take: queue is empty."
  /\ pool.arg = 2
  /\ objects_ = <<>>
  /\ leases[1].state = "destroyed"
  /\ leases[2].state = "none"

\* ------------------------------------------------------------------------
\* Claims about the pool under several threads
\* ------------------------------------------------------------------------

C30_TakeAddCyclesKeepSize ==
  (/\ \A t \in ThreadNames : threads[t].pc = "idle"
   /\ \A t \in ThreadNames : threads[t].takes = threads[t].adds)
    => /\ \A t \in ThreadNames : size = threads[t].initial
       /\ mutex_ = 0

C30_Witness ==
  /\ \A t \in ThreadNames :
       /\ threads[t].pc = "idle"
       /\ threads[t].takes = MaxCycles
       /\ threads[t].adds = MaxCycles
  /\ size = 1
  /\ pool.op = "add"


\* ------------------------------------------------------------------------
\* Properties of the arena: blocks, guards and foreign checkpoints
\* ------------------------------------------------------------------------

\* C33: a block returned by a successful alloc or alloc_t starts at or after
\* the end of every block the arena returned since it was fresh or last
\* reset or restored, so two such blocks never overlap.
C33_LaterBlockStartsAfterEarlier ==
  [][(/\ last'.op \in {"alloc", "alloc_t"}
      /\ last'.ret # NULL
      /\ requested.high # NULL)
       => /\ last'.ret >= requested.high
          /\ requested'.high = last'.ret + last'.size]_vars

\* A second block has been returned, right behind an earlier one.
C33_Witness ==
  /\ last.op = "alloc_t"
  /\ last.ret # NULL
  /\ requested.linear
  /\ requested.total > last.size
  /\ requested.high = last.ret + last.size


\* Guards used as scopes: between the construction and the destruction of
\* a guard the arena sees only alloc, alloc_t and nested guards, and the
\* guards are destroyed innermost first.
ScopeNext ==
  \/ Alloc
  \/ AllocT
  \/ GuardEnter
  \/ GuardExit

ScopeSpec == GuardInit /\ [][ScopeNext]_vars

\* C34: with guards destroyed in reverse order of creation and only
\* allocations and nested guards inside their scopes, the destruction of a
\* guard is accepted, leaves bytes_used() at the value it had when the
\* guard was created, and never increases bytes_used().
C34_ScopedGuardsRestoreUsage ==
  [][Len(guards') < Len(guards)
       => /\ ~last'.threw
          /\ bytes_used' = bytes_used_of(start_marker_,
                                         guards[Len(guards)].entry)
          /\ bytes_used' <= bytes_used]_vars

\* An inner guard has just given back what was allocated in its scope; the
\* outer guard is alive and holds bytes allocated before the inner one.
C34_Witness ==
  /\ last.op = "~StackCheckpoint"
  /\ Len(guards) = 1
  /\ active_marker_ < last.before
  /\ guards[1].entry < active_marker_


\* C35: restore_checkpoint, called directly or by a guard's destructor,
\* does not compare the checkpoint with the cursor: a checkpoint inside
\* [start_marker_, start_marker_ + capacity_] that lies above the cursor is
\* accepted and moves the cursor forward to it, so bytes_used() grows.
C35_RestoreAcceptsForwardCheckpoint ==
  [][(/\ last'.op \in {"restore_checkpoint", "~StackCheckpoint"}
      /\ last'.checkpoint > active_marker_
      /\ last'.checkpoint >= start_marker_
      /\ last'.checkpoint <= start_marker_ + capacity_)
       => /\ ~last'.threw
          /\ active_marker_' = last'.checkpoint
          /\ bytes_used' > bytes_used]_vars

\* A guard created after some allocation is destroyed after a reset made
\* inside its scope: its destructor has moved the cursor forward again.
C35_Witness ==
  /\ last.op = "~StackCheckpoint"
  /\ ~last.threw
  /\ last.before = start_marker_
  /\ last.checkpoint > start_marker_
  /\ active_marker_ = last.checkpoint


\* ------------------------------------------------------------------------
\* Two arenas, A and B, over caller-supplied buffers that do not overlap
\* ------------------------------------------------------------------------

\* The buffer of A, and the buffers B may be given: one that ends where A's
\* begins, ones that begin where A's ends or later.
FirstBuffers == {[memory |-> 2 * MaxAlignT, size |-> s] : s \in {2, MaxAlignT}}
SecondBuffers ==
  {[memory |-> m, size |-> s] :
     m \in {MaxAlignT, 3 * MaxAlignT, 4 * MaxAlignT},
     s \in {2, MaxAlignT}}

\* [memory, memory + size) of the two buffers have no byte in common.
Disjoint(a, b) ==
  a.memory + a.size <= b.memory \/ b.memory + b.size <= a.memory

PairInit ==
  \E a \in FirstBuffers, b \in SecondBuffers :
    LET first == StackAllocatorExternal(a.memory, a.size)
        second == StackAllocatorExternal(b.memory, b.size)
    IN /\ Disjoint(a, b)
       /\ ~first.threw
       /\ ~second.threw
       /\ start_marker_ = first.start
       /\ active_marker_ = first.active
       /\ capacity_ = first.capacity
       /\ owns_memory_ = first.owns
       /\ built = [start |-> first.start, capacity |-> first.capacity,
                   checkpoint |-> save_checkpoint(first.start, first.active)]
       /\ last = NoCall
       /\ saved = NoSaved
       /\ requested = [total |-> 0, linear |-> TRUE, high |-> NULL]
       /\ other = [start_marker_ |-> second.start,
                   active_marker_ |-> second.active,
                   capacity_ |-> second.capacity]
       /\ made = NoConstruction
       /\ guards = <<>>
       /\ NoPool

\* b.alloc_t<T>()
OtherAllocT ==
  \E t \in Types :
    LET r == alloc_t(other.start_marker_, other.active_marker_,
                     other.capacity_, t.size, t.align)
    IN /\ r.ret # NULL
       /\ other' = [other EXCEPT !.active_marker_ = r.marker]
       /\ UNCHANGED <<start_marker_, active_marker_, capacity_, owns_memory_,
                      built, last, saved, requested>>
       /\ UNCHANGED <<made, guards, poolVars, clientVars>>

\* b.reset()
OtherReset ==
  /\ other.active_marker_ # other.start_marker_
  /\ other' = [other EXCEPT
                 !.active_marker_ = reset(other.start_marker_,
                                          other.active_marker_)]
  /\ UNCHANGED <<start_marker_, active_marker_, capacity_, owns_memory_,
                 built, last, saved, requested>>
  /\ UNCHANGED <<made, guards, poolVars, clientVars>>

\* a.restore_checkpoint(b.save_checkpoint())
RestoreForeign ==
  LET checkpoint == save_checkpoint(other.start_marker_,
                                    other.active_marker_)
      r == restore_checkpoint(start_marker_, active_marker_, capacity_,
                              checkpoint)
  IN /\ active_marker_' = r.marker
     /\ last' = [op |-> "restore_checkpoint(b.save_checkpoint())",
                 size |-> 0, alignment |-> 0, checkpoint |-> checkpoint,
                 ret |-> 0, threw |-> r.threw, before |-> active_marker_]
     /\ requested' = IF r.threw THEN requested
                     ELSE [total |-> 0, linear |-> FALSE, high |-> NULL]
     /\ saved' = NoSaved
     /\ UNCHANGED <<start_marker_, capacity_, owns_memory_, built>>
     /\ UNCHANGED <<other, made, guards, poolVars, clientVars>>

PairNext ==
  \/ AllocT
  \/ Reset
  \/ OtherAllocT
  \/ OtherReset
  \/ RestoreForeign

PairSpec == PairInit /\ [][PairNext]_vars

\* C36 as stated: restoring on A a checkpoint saved from B always fails and
\* leaves A's cursor where it was, wherever the two buffers lie.
C36_ForeignCheckpointAlwaysFails ==
  last.op = "restore_checkpoint(b.save_checkpoint())"
    => /\ last.threw
       /\ active_marker_ = last.before

\* B's checkpoint is one of the two ends of A's region: B's buffer ends
\* where A's region begins and B is full, or it begins where A's region
\* ends and B is empty.
OnSharedBoundary(checkpoint) ==
  \/ /\ other.start_marker_ + other.capacity_ = start_marker_
     /\ checkpoint = start_marker_
  \/ /\ other.start_marker_ = start_marker_ + capacity_
     /\ checkpoint = start_marker_ + capacity_

\* C36, amended: restoring on A a checkpoint saved from B fails and leaves
\* A's cursor unchanged unless the checkpoint is an end of A's region that
\* the two buffers share; in that case the restore is accepted and A's
\* cursor is moved to that end.
C36_ForeignCheckpointFailsOffBoundary ==
  last.op = "restore_checkpoint(b.save_checkpoint())"
    => IF OnSharedBoundary(last.checkpoint)
       THEN ~last.threw /\ active_marker_ = last.checkpoint
       ELSE last.threw /\ active_marker_ = last.before

\* B begins where A ends and holds something, A holds something too: B's
\* checkpoint has just been rejected by A.
C36_Witness ==
  /\ last.op = "restore_checkpoint(b.save_checkpoint())"
  /\ last.threw
  /\ other.start_marker_ = start_marker_ + capacity_
  /\ last.checkpoint > other.start_marker_
  /\ active_marker_ > start_marker_


\* ------------------------------------------------------------------------
\* Properties of the constructors and of an arena used up exactly
\* ------------------------------------------------------------------------

\* C37: after a successful StackAllocator(memory, size) the base is memory
\* rounded up to the next multiple of alignof(std::max_align_t), the
\* capacity is size less the bytes skipped, nothing is in use, and the
\* managed region lies inside the buffer and ends where the buffer ends.
C37_ExternalCtorManagesAlignedTail ==
  (made.op = "StackAllocator(memory, size)" /\ ~made.threw)
    => /\ start_marker_ = made.memory + AlignmentOffset(made.memory)
       /\ capacity_ = made.size - (start_marker_ - made.memory)
       /\ bytes_used = 0
       /\ made.memory <= start_marker_
       /\ start_marker_ + capacity_ = made.memory + made.size

\* A misaligned buffer has been accepted: its first bytes are skipped.
C37_Witness ==
  /\ made.op = "StackAllocator(memory, size)"
  /\ ~made.threw
  /\ start_marker_ > made.memory
  /\ capacity_ < made.size


\* Owning arenas that some object type fills exactly: StackAllocator(c) for
\* every c that is the size of a type, StackAllocator(4) with int among
\* them.
ExactInit ==
  \E c \in {t.size : t \in Types}, memory \in MallocAddrs :
    LET a == StackAllocatorOwned(c, memory)
    IN /\ ~a.threw
       /\ start_marker_ = a.start
       /\ active_marker_ = a.active
       /\ capacity_ = a.capacity
       /\ owns_memory_ = a.owns
       /\ built = [start |-> a.start, capacity |-> a.capacity,
                   checkpoint |-> save_checkpoint(a.start, a.active)]
       /\ last = NoCall
       /\ saved = NoSaved
       /\ requested = [total |-> 0, linear |-> TRUE, high |-> NULL]
       /\ other = NoOther
       /\ made = NoConstruction
       /\ guards = <<>>
       /\ NoPool

ExactNext ==
  \/ Alloc
  \/ AllocT
  \/ RestoreCheckpoint
  \/ Reset

ExactSpec == ExactInit /\ [][ExactNext]_vars

\* C38: on a freshly constructed owning arena of capacity c, alloc_t<T>()
\* with sizeof(T) == c succeeds, returns the base and leaves
\* bytes_remaining() == 0; and while bytes_remaining() == 0 every alloc and
\* alloc_t fails and leaves the cursor alone.
C38_ArenaCanBeConsumedExactly ==
  [][/\ (/\ last = NoCall
         /\ last'.op = "alloc_t"
         /\ last'.size = capacity_)
          => /\ last'.ret = start_marker_
             /\ bytes_remaining' = 0
     /\ (/\ bytes_remaining = 0
         /\ last'.op \in {"alloc", "alloc_t"})
          => /\ last'.ret = NULL
             /\ active_marker_' = active_marker_]_vars

\* StackAllocator stack(4); stack.alloc_t<int>(): the arena is full.
C38_Witness ==
  /\ capacity_ = 4
  /\ last.op = "alloc_t"
  /\ last.size = 4
  /\ last.alignment = 4
  /\ last.before = start_marker_
  /\ last.ret = start_marker_
  /\ bytes_remaining = 0


\* ------------------------------------------------------------------------
\* ObjectPool shared by threads: every public operation, call by call
\* ------------------------------------------------------------------------

\* Most calls the threads make, all together.
MaxCalls == 3

\* The queues the shared pool is built from: items that can be told apart
\* from one another and from the value_type() items reserve creates.
SharedQueues == {<<1>>, <<1, 2>>}

\* Mutant: the lock is taken without waiting for its holder.
scoped_lock_no_wait(holder) == TRUE

\* std::scoped_lock<std::mutex> lock(mutex_): the constructor returns only
\* when no thread holds the mutex (holder is 0).
scoped_lock(holder) == holder = 0

\* Mutant: the mutex stays locked when the operation is left.
unlock_keeps_holder(holder) == holder

\* ~scoped_lock(), on return and on a throw alike: mutex_.unlock().
unlock(holder) == 0

\* pc: "idle", "called" (the call is made, the lock not yet taken) or
\* "locked" (inside the operation, past the scoped_lock); op, arg: the
\* call the thread is in; held: the item the thread took and has not given
\* back.
NewCaller == [pc |-> "idle", op |-> "none", arg |-> <<>>, held |-> <<>>]

SharedInit ==
  /\ NoStackAllocator
  /\ mutex_ = 0
  /\ leases = <<>>
  /\ script = [on |-> FALSE, init_size |-> 0, limit |-> nullopt,
               adds |-> 0, calls |-> 0]
  /\ \E src \in SharedQueues :
       LET r == ObjectPoolFromQueue(src)
       IN /\ objects_ = r.objects
          /\ size_limit_ = r.limit
          /\ pool = PoolCallRecord("ObjectPool(src)", <<>>, nullopt,
                                   NoFault, r)
  /\ threads = [t \in ThreadNames |-> NewCaller]

\* Thread t calls op with arg: control enters the member function.
Enters(t, op, arg) ==
  /\ threads[t].pc = "idle"
  /\ script.calls < MaxCalls
  /\ script' = [script EXCEPT !.calls = @ + 1]
  /\ threads' = [threads EXCEPT ![t].pc = "called", ![t].op = op,
                                ![t].arg = arg]
  /\ UNCHANGED <<arenaVars, made, guards, objects_, size_limit_, pool,
                 mutex_, leases>>

\* Thread t is inside op, past the scoped_lock.
InBody(t, op) == threads[t].pc = "locked" /\ threads[t].op = op

\* Thread t leaves the operation with outcome r, holding the item in held:
\* the lock object is destroyed on the way out.
Leaves(t, r, held) ==
  /\ objects_' = r.objects
  /\ size_limit_' = r.limit
  /\ pool' = PoolCallRecord(threads[t].op, threads[t].arg, nullopt,
                            NoFault, r)
  /\ mutex_' = unlock(mutex_)
  /\ threads' = [threads EXCEPT ![t].pc = "idle", ![t].op = "none",
                                ![t].arg = <<>>, ![t].held = held]
  /\ UNCHANGED <<arenaVars, made, guards, script, leases>>

\* The outcome r of an operation that returns bool, with the value
\* converted to an integer (true is 1, false is 0) so that the records of
\* all calls can be compared with one another.
Flag(r) == [r EXCEPT !.ret = <<IF @[1] THEN 1 ELSE 0>>]

\* The outcome of an operation that only reads the pool.
Observed(objects, limit, ret) ==
  [objects |-> objects, limit |-> limit, ret |-> ret, error |-> "none",
   hooks |-> <<>>]

\* A thread that holds no item calls take, try_take, size, empty or
\* size_limit.
CallNullary ==
  \E t \in ThreadNames,
     op \in {"take", "try_take", "size", "empty", "size_limit"} :
    /\ op \in {"take", "try_take"} => threads[t].held = <<>>
    /\ Enters(t, op, <<>>)

\* A thread calls add or try_add with the item it holds.
CallAdd ==
  \E t \in ThreadNames, op \in {"add", "try_add"} :
    /\ threads[t].held # <<>>
    /\ Enters(t, op, threads[t].held)

CallReserve ==
  \E t \in ThreadNames, op \in {"reserve", "try_reserve"},
     target_size \in {ZeroTarget, 3} :
    /\ TRUE
    /\ Enters(t, op, <<target_size>>)

CallSetSizeLimit ==
  \E t \in ThreadNames, limit \in {nullopt, some(1)} :
    /\ TRUE
    /\ Enters(t, "set_size_limit", limit)

\* reserve_impl with target_size == 0: left before the lock is declared.
SharedReserveZero ==
  \E t \in ThreadNames :
    LET target_size == threads[t].arg[1]
        r == IF threads[t].op = "reserve"
             THEN reserve(objects_, size_limit_, target_size, NoFault)
             ELSE Flag(try_reserve(objects_, size_limit_, target_size,
                                   NoFault))
    IN /\ threads[t].pc = "called"
       /\ threads[t].op \in {"reserve", "try_reserve"}
       /\ target_size = ZeroTarget
       /\ objects_' = r.objects
       /\ size_limit_' = r.limit
       /\ pool' = PoolCallRecord(threads[t].op, threads[t].arg, nullopt,
                                 NoFault, r)
       /\ threads' = [threads EXCEPT ![t].pc = "idle", ![t].op = "none",
                                     ![t].arg = <<>>]
       /\ UNCHANGED <<arenaVars, made, guards, script, leases, mutex_>>

\* std::scoped_lock<std::mutex> lock(mutex_), in every other call.
SharedLock ==
  \E t \in ThreadNames :
    /\ threads[t].pc = "called"
    /\ ~(/\ threads[t].op \in {"reserve", "try_reserve"}
         /\ threads[t].arg = <<ZeroTarget>>)
    /\ scoped_lock(mutex_)
    /\ mutex_' = t
    /\ threads' = [threads EXCEPT ![t].pc = "locked"]
    /\ UNCHANGED <<arenaVars, made, guards, poolVars, leases>>

SharedTake ==
  \E t \in ThreadNames :
    LET r == take(objects_, size_limit_)
    IN /\ InBody(t, "take")
       /\ Leaves(t, r, r.ret)

SharedTryTake ==
  \E t \in ThreadNames :
    LET r == try_take(objects_, size_limit_)
    IN /\ InBody(t, "try_take")
       /\ Leaves(t, r, r.ret)

\* An add that throws leaves the item with the caller.
SharedAdd ==
  \E t \in ThreadNames :
    LET r == add(objects_, size_limit_, value(threads[t].arg))
    IN /\ InBody(t, "add")
       /\ Leaves(t, r, IF r.error = "none" THEN <<>> ELSE threads[t].held)

\* A try_add that returns false leaves the item with the caller.
SharedTryAdd ==
  \E t \in ThreadNames :
    LET r == try_add(objects_, size_limit_, value(threads[t].arg), NoFault)
    IN /\ InBody(t, "try_add")
       /\ Leaves(t, Flag(r),
                 IF r.ret = <<TRUE>> THEN <<>> ELSE threads[t].held)

SharedReserve ==
  \E t \in ThreadNames :
    LET r == reserve(objects_, size_limit_, threads[t].arg[1], NoFault)
    IN /\ InBody(t, "reserve")
       /\ Leaves(t, r, threads[t].held)

SharedTryReserve ==
  \E t \in ThreadNames :
    LET r == try_reserve(objects_, size_limit_, threads[t].arg[1], NoFault)
    IN /\ InBody(t, "try_reserve")
       /\ Leaves(t, Flag(r), threads[t].held)

SharedSize ==
  \E t \in ThreadNames :
    LET r == Observed(objects_, size_limit_, <<size_of(objects_)>>)
    IN /\ InBody(t, "size")
       /\ Leaves(t, r, threads[t].held)

SharedEmpty ==
  \E t \in ThreadNames :
    LET r == Observed(objects_, size_limit_, <<empty_of(objects_)>>)
    IN /\ InBody(t, "empty")
       /\ Leaves(t, Flag(r), threads[t].held)

SharedSizeLimit ==
  \E t \in ThreadNames :
    LET r == Observed(objects_, size_limit_, size_limit_)
    IN /\ InBody(t, "size_limit")
       /\ Leaves(t, r, threads[t].held)

SharedSetSizeLimit ==
  \E t \in ThreadNames :
    LET r == set_size_limit(objects_, size_limit_, threads[t].arg)
    IN /\ InBody(t, "set_size_limit")
       /\ Leaves(t, r, threads[t].held)

SharedNext ==
  \/ CallNullary
  \/ CallAdd
  \/ CallReserve
  \/ CallSetSizeLimit
  \/ SharedReserveZero
  \/ SharedLock
  \/ SharedTake
  \/ SharedTryTake
  \/ SharedAdd
  \/ SharedTryAdd
  \/ SharedReserve
  \/ SharedTryReserve
  \/ SharedSize
  \/ SharedEmpty
  \/ SharedSizeLimit
  \/ SharedSetSizeLimit

SharedSpec == SharedInit /\ [][SharedNext]_vars


\* Fair scheduling: a thread inside an operation keeps running until it
\* leaves it (the hooks terminate and do not call the pool), and a thread
\* that has made a call gets past the scoped_lock (or past the
\* target_size == 0 exit of reserve_impl) if the mutex is free again and
\* again.
FairSharedSpec ==
  /\ SharedSpec
  /\ \A t \in ThreadNames :
       /\ WF_vars(/\ threads[t].pc = "locked"
                  /\ SharedNext
                  /\ threads'[t].pc = "idle")
       /\ SF_vars(/\ threads[t].pc = "called"
                  /\ SharedNext
                  /\ threads'[t].pc # "called")

\* C31: at most one thread at a time is inside an operation, past its
\* scoped_lock; the mutex is held by exactly that thread, so never by a
\* thread that is outside every operation and merely holds an item.
C31_PoolLockIsExclusive ==
  /\ \A t, u \in ThreadNames :
       threads[t].pc = "locked" /\ threads[u].pc = "locked" => t = u
  /\ \A t \in ThreadNames : threads[t].pc = "locked" <=> mutex_ = t
  /\ mutex_ # 0 => mutex_ \in ThreadNames

\* A thread is inside take while another one, outside every operation,
\* holds an item it took.
C31_Witness ==
  \E t, u \in ThreadNames :
    /\ InBody(t, "take")
    /\ mutex_ = t
    /\ threads[u].pc = "idle"
    /\ threads[u].held # <<>>

\* C32: under fair scheduling every call a thread has made returns or
\* fails, whatever the other threads do; and a take that finds the pool
\* empty fails in that very step instead of waiting for an add.
C32_EveryCallReturns ==
  /\ \A t \in ThreadNames :
       (threads[t].pc # "idle") ~> (threads[t].pc = "idle")
  /\ [][\A t \in ThreadNames :
          (InBody(t, "take") /\ objects_ = <<>> /\ threads'[t] # threads[t])
            => /\ threads'[t].pc = "idle"
               /\ pool'.error = "ObjectPool::take: queue is empty."
               /\ mutex_' = 0]_vars

\* A thread has called take on the empty pool and waits for the mutex,
\* which a thread that is adding an item holds.
C32_Witness ==
  \E t, u \in ThreadNames :
    /\ threads[t].pc = "called"
    /\ threads[t].op = "take"
    /\ objects_ = <<>>
    /\ InBody(u, "add")
    /\ mutex_ = u

\* The copies of item in the queue objs, and in the hands of the threads.
CountIn(objs, item) == Cardinality({i \in DOMAIN objs : objs[i] = item})
HeldBy(callers, item) ==
  Cardinality({t \in ThreadNames : callers[t].held = <<item>>})

\* The items that exist: those of the queues and those reserve creates.
SharedItems ==
  {DefaultValue} \cup UNION {{src[i] : i \in DOMAIN src} : src \in SharedQueues}

\* The step is the body of reserve or try_reserve.
ReserveReturns ==
  \E t \in ThreadNames :
    /\ threads[t].op \in {"reserve", "try_reserve"}
    /\ threads[t].pc # "idle"
    /\ threads'[t].pc = "idle"

\* C39: whatever the interleaving, an item returned by take or try_take
\* was resident just before and is removed by that call; outside reserve
\* the number of copies of every item, resident or held, stays the same;
\* and no item of the original queue ever exists twice, resident or held.
C39_ItemsAreNeitherDuplicatedNorLost ==
  [][/\ \A t \in ThreadNames :
          (/\ InBody(t, "take") \/ InBody(t, "try_take")
           /\ threads'[t].pc = "idle"
           /\ threads'[t].held # <<>>)
            => /\ CountIn(objects_, value(threads'[t].held)) > 0
               /\ CountIn(objects_', value(threads'[t].held))
                    = CountIn(objects_, value(threads'[t].held)) - 1
     /\ ~ReserveReturns
          => \A item \in SharedItems :
               CountIn(objects_', item) + HeldBy(threads', item)
                 = CountIn(objects_, item) + HeldBy(threads, item)
     /\ \A item \in SharedItems \ {DefaultValue} :
          CountIn(objects_', item) + HeldBy(threads', item) <= 1]_vars

\* Two threads took the two items of the queue and the first taker has
\* added its item back.
C39_Witness ==
  \E t, u \in ThreadNames :
    /\ pool.op = "add"
    /\ pool.error = "none"
    /\ objects_ = <<2>>
    /\ threads[t].held = <<>>
    /\ threads[u].held = <<1>>


\* ------------------------------------------------------------------------
\* Properties of the hooks
\* ------------------------------------------------------------------------

\* C40: the pool calls the release hook on every item that becomes
\* resident and the acquire hook on every item it hands out: a constructor,
\* whichever it is, has called on_release on each item it leaves resident,
\* a successful add or try_add has called on_release on the item it
\* inserted and nothing else, and a take or try_take that returns an item
\* has called on_acquire on it and nothing else.
C40_HooksFollowResidence ==
  /\ (/\ pool.op \in {"ObjectPool()", "ObjectPool(src)",
                      "ObjectPool(init_size, limit)"}
      /\ pool.error = "none")
       => pool.hooks = [i \in DOMAIN objects_ |-> on_release(objects_[i])]
  /\ (pool.op = "add" /\ pool.error = "none")
       => pool.hooks = <<on_release(back(objects_))>>
  /\ (pool.op = "try_add" /\ pool.ret = <<TRUE>>)
       => pool.hooks = <<on_release(back(objects_))>>
  /\ (pool.op \in {"take", "try_take"} /\ pool.ret # <<>>)
       => pool.hooks = <<on_acquire(value(pool.ret))>>

====
